---------------------------- MODULE Spec2Model ----------------------------
(***************************************************************************)
(* Remote processor resource manager (rprm), indexed variant.              *)
(*                                                                         *)
(* One rprm connection (struct rprm) per rpmsg channel.  Every handler of  *)
(* the rpmsg driver (rprm_probe, rprm_cb, rprm_remove) and the manager     *)
(* registry (rprm_manager_register / rprm_manager_unregister) is one       *)
(* action.  Resource drivers, the allocator and the idr are the handler's  *)
(* environment: their return values are inputs of the action.              *)
(***************************************************************************)
EXTENDS Integers, Sequences, FiniteSets, TLC

(***************************************************************************)
(* Bounds of the model.                                                    *)
(***************************************************************************)
MaxHandles == 2        \* handles the resource drivers hand out in one run
MaxData == 2           \* longest parameter block of a message, in bytes
MaxLongData == 130     \* longest parameter block sent to fill the ack buffer
MaxReqs == 2           \* suspend requests sent between two resumes

(***************************************************************************)
(* Program constants.                                                      *)
(***************************************************************************)
RPRM_REQUEST == 0
RPRM_RELEASE == 1

ENOENT == 2
EIO == 5
EAGAIN == 11
ENOMEM == 12
EBUSY == 16
EEXIST == 17
EINVAL == 22
ETIME == 62
ENOTCONN == 107

SizeofMsg == 4         \* sizeof(struct rprm_msg)
SizeofRequest == 4     \* sizeof(struct rprm_request)
SizeofRelease == 4     \* sizeof(struct rprm_release)
SizeofAck == 8         \* sizeof(struct rprm_ack)
SizeofRack == 8        \* sizeof(struct rprm_request_ack)

OmapResCnt == 3        \* ARRAY_SIZE(omap_rprm_resources)

NULL == -1

\* the rpmsg channels probed against this driver
Chans == {1}
\* ... and a second channel, for what involves two connections
Chans2 == {1, 2}
MgrNames == {"rprm-ducati"}

\* the names the rpmsg bus probes this driver for
rprm_id_table == {"rprm-ducati"}

\* mgr->res_cnt of the manager registered under a name
res_cnt(name) == OmapResCnt

\* rpdev->dst: the remote endpoint channel c is connected to
rpdev_dst(c) == 100 + c

\* an endpoint no channel is connected to
StraySrc == 99

\* A 32-bit word (u32 action, ret, res_id of the wire structs; int ret of the
\* handlers) is written as the integer its bits are in two's complement, so
\* the store of an int status into the u32 ret keeps the value.

(***************************************************************************)
(* The idr: a table of (id, pointer) slots.                                *)
(***************************************************************************)
\* a NULL struct rprm_elem pointer
NULL_ELEM == [id |-> NULL, res |-> NULL, handle |-> 0]

idr_ids(idp) == {p.id : p \in idp}

idr_find(idp, id) ==
    IF \E p \in idp : p.id = id
    THEN (CHOOSE p \in idp : p.id = id).ptr
    ELSE NULL_ELEM

idr_remove(idp, id) == {p \in idp : p.id # id}

\* idr_get_new that hands out the lowest id not in use, starting at 1
idr_get_new_from1(idp) ==
    CHOOSE i \in 1..(Cardinality(idp) + 1) :
        /\ i \notin idr_ids(idp)
        /\ \A j \in 1..(i - 1) : j \in idr_ids(idp)

\* idr_get_new that does not skip the ids in use
idr_get_new_inuse(idp) == 0

\* the id idr_get_new hands out: the lowest id not in use, starting at 0
idr_get_new(idp) ==
    CHOOSE i \in 0..Cardinality(idp) :
        /\ i \notin idr_ids(idp)
        /\ \A j \in 0..(i - 1) : j \in idr_ids(idp)

idr_insert(idp, id, e) == idp \cup {[id |-> id, ptr |-> e]}

(***************************************************************************)
(* The list of struct rprm_elem, head first.                               *)
(***************************************************************************)
\* list_add_tail in place of list_add
list_add_tail(e, list) == Append(list, e)

list_add(e, list) == <<e>> \o list

RECURSIVE list_del(_, _)
list_del(e, list) ==
    IF list = <<>> THEN <<>>
    ELSE IF Head(list) = e THEN Tail(list)
    ELSE <<Head(list)>> \o list_del(e, Tail(list))

(***************************************************************************)
(* Values.                                                                 *)
(***************************************************************************)
\* the value of a local the handler never assigned
NoRet == 1

\* contents of stack memory the handler never wrote
Garbage == {0, 1}

\* the parameter blocks of a message: one of every length, bytes 1, 2, ...
DataSeqs == {[i \in 1..n |-> i] : n \in 0..MaxData}
Actions == {RPRM_REQUEST, RPRM_RELEASE, 2}
\* resource indexes: the first, the last and the first out of range
Idxs == {0, OmapResCnt - 1, OmapResCnt}
\* resource ids: every id that can be live and one that cannot
ResIds == 0..MaxHandles
Srcs(c) == {rpdev_dst(c), StraySrc}

Msg(len, action, word, data, src) ==
    [len |-> len, action |-> action, word |-> word, data |-> data,
     src |-> src]

\* the messages the transport delivers to rprm_cb of channel c: len bytes,
\* of which the fields that do not fit are absent
Msgs(c) ==
    \* no room for struct rprm_msg
    {Msg(SizeofMsg - 1, NULL, NULL, <<>>, s) : s \in Srcs(c)}
    \cup
    \* no room for struct rprm_request / struct rprm_release
    {Msg(SizeofMsg + SizeofRequest - 1, a, NULL, <<>>, s) :
        a \in Actions, s \in Srcs(c)}
    \cup
    {Msg(SizeofMsg + SizeofRequest + Len(d), RPRM_REQUEST, i, d,
         rpdev_dst(c)) : i \in Idxs, d \in DataSeqs}
    \cup
    {Msg(SizeofMsg + SizeofRelease, RPRM_RELEASE, i, <<>>, rpdev_dst(c)) :
        i \in ResIds}
    \cup
    {Msg(SizeofMsg + SizeofRequest, 2, 0, <<>>, rpdev_dst(c))}
    \cup
    \* from an endpoint the channel is not connected to
    {Msg(SizeofMsg + SizeofRequest, a, 0, <<>>, StraySrc) : a \in Actions}

NoMsg == [len |-> 0, action |-> NULL, word |-> NULL, data |-> <<>>, src |-> 0]

\* errors a resource driver returns from request and from release
DrvReqErrs == {-EINVAL, -EBUSY}
DrvRelErrs == {-EINVAL}

\* the channels omap_request_dma hands out
DmaChs == {2, 7}

\* what the environment answers during one rprm_resource_request:
\* kz: kzalloc of the element succeeded, req: return of res->request,
\* pre: idr_pre_get succeeded, get: return of idr_get_new,
\* rel: return of res->release on the error path, base: stack garbage,
\* ch: the channel omap_request_dma returns
ReqEnvs(nh) ==
    {[kz |-> FALSE, req |-> 0, pre |-> TRUE, get |-> 0, rel |-> 0, base |-> 0,
      ch |-> 2]}
    \cup
    {[kz |-> TRUE, req |-> r, pre |-> TRUE, get |-> 0, rel |-> 0, base |-> 0,
      ch |-> 2] : r \in DrvReqErrs}
    \cup
    (IF nh < MaxHandles
     THEN {[kz |-> TRUE, req |-> 0, pre |-> FALSE, get |-> 0, rel |-> r,
            base |-> 0, ch |-> 2] : r \in {0} \cup DrvRelErrs}
          \cup
          {[kz |-> TRUE, req |-> 0, pre |-> TRUE, get |-> -EAGAIN, rel |-> r,
            base |-> 0, ch |-> 2] : r \in {0} \cup DrvRelErrs}
          \cup
          {[kz |-> TRUE, req |-> 0, pre |-> TRUE, get |-> 0, rel |-> 0,
            base |-> g, ch |-> ch] : g \in Garbage, ch \in DmaChs}
     ELSE {})

NoEnv ==
    [kz |-> TRUE, req |-> 0, pre |-> TRUE, get |-> 0, rel |-> 0, base |-> 0,
     ch |-> 2]

\* the index of omap-sdma in omap_rprm_resources
SdmaIdx == OmapResCnt - 1

\* the fields of a struct rprm_sdma parameter block that are channels: the
\* block is num_chs followed by channels[], one byte per field here
SdmaChannelFields(data) ==
    IF data = <<>> THEN {} ELSE {i \in DOMAIN data : 2 <= i /\ i <= 1 + data[1]}

\* rprm_sdma_request that stores the channels over the whole block
rprm_sdma_request_all(data, ch) == [i \in DOMAIN data |-> ch]

\* the parameter block as rprm_sdma_request leaves it: channels[i] = ch for
\* the num_chs channels it was asked for
rprm_sdma_request(data, ch) ==
    [i \in DOMAIN data |-> IF i \in SdmaChannelFields(data) THEN ch ELSE data[i]]

\* req->data after res->request(mgr, &e->handle, data, len) of resource idx:
\* rprm_gptimer_request and rprm_auxclk_request only read the block
res_request_data(idx, data, ch) ==
    IF idx = SdmaIdx THEN rprm_sdma_request(data, ch) ELSE data

\* one call of a resource driver
DrvCall(op, res, handle, ret) ==
    [op |-> op, res |-> res, handle |-> handle, ret |-> ret]

(***************************************************************************)
(* _resource_release: r is the return of res->release.                     *)
(***************************************************************************)
_resource_release(list, e, r) ==
    [ret      |-> r,
     res_list |-> IF r # 0 THEN list ELSE list_del(e, list),
     calls    |-> <<DrvCall("release", e.res, e.handle, r)>>]

\* rprm_resource_release that reports an unknown id as -EINVAL
rprm_resource_release_einval(s, res_id, r) ==
    LET e == idr_find(s.id_list, res_id) IN
    IF e = NULL_ELEM
    THEN [ret |-> -EINVAL, id_list |-> s.id_list, res_list |-> s.res_list,
          calls |-> <<>>]
    ELSE LET rr == _resource_release(s.res_list, e, r) IN
         [ret |-> rr.ret, id_list |-> idr_remove(s.id_list, res_id),
          res_list |-> rr.res_list, calls |-> rr.calls]

(***************************************************************************)
(* rprm_resource_release on the connection s.                              *)
(***************************************************************************)
rprm_resource_release(s, res_id, r) ==
    LET e == idr_find(s.id_list, res_id) IN
    IF e = NULL_ELEM
    THEN [ret |-> -ENOENT, id_list |-> s.id_list, res_list |-> s.res_list,
          calls |-> <<>>]
    ELSE LET rr == _resource_release(s.res_list, e, r) IN
         [ret |-> rr.ret, id_list |-> idr_remove(s.id_list, res_id),
          res_list |-> rr.res_list, calls |-> rr.calls]

\* rprm_resource_request whose bounds check is idx > res_cnt
rprm_resource_request_offbyone(s, idx, env, nh) ==
    LET fail(ret, calls, n) ==
            [ret |-> ret, res_id |-> NULL, id_list |-> s.id_list,
             res_list |-> s.res_list, calls |-> calls, nh |-> n]
        handle == nh + 1
        req_ok == DrvCall("request", idx, handle, 0)
        undo   == DrvCall("release", idx, handle, env.rel)
    IN
    IF idx > res_cnt(s.mgr) THEN fail(-EINVAL, <<>>, nh)
    ELSE IF ~env.kz THEN fail(-ENOMEM, <<>>, nh)
    ELSE IF env.req # 0
         THEN fail(env.req, <<DrvCall("request", idx, 0, env.req)>>, nh)
    ELSE IF ~env.pre THEN fail(-ENOMEM, <<req_ok, undo>>, handle)
    ELSE IF env.get # 0 THEN fail(env.get, <<req_ok, undo>>, handle)
    ELSE LET id == idr_get_new(s.id_list)
             e  == [id |-> id, res |-> idx, handle |-> handle]
         IN [ret |-> 0, res_id |-> id,
             id_list |-> idr_insert(s.id_list, id, e),
             res_list |-> list_add(e, s.res_list),
             calls |-> <<req_ok>>, nh |-> handle]

\* rprm_resource_request that leaves e->res at the first descriptor
rprm_resource_request_firstres(s, idx, env, nh) ==
    LET fail(ret, calls, n) ==
            [ret |-> ret, res_id |-> NULL, id_list |-> s.id_list,
             res_list |-> s.res_list, calls |-> calls, nh |-> n]
        handle == nh + 1
        req_ok == DrvCall("request", idx, handle, 0)
        undo   == DrvCall("release", idx, handle, env.rel)
    IN
    IF idx >= res_cnt(s.mgr) THEN fail(-EINVAL, <<>>, nh)
    ELSE IF ~env.kz THEN fail(-ENOMEM, <<>>, nh)
    ELSE IF env.req # 0
         THEN fail(env.req, <<DrvCall("request", idx, 0, env.req)>>, nh)
    ELSE IF ~env.pre THEN fail(-ENOMEM, <<req_ok, undo>>, handle)
    ELSE IF env.get # 0 THEN fail(env.get, <<req_ok, undo>>, handle)
    ELSE LET id == idr_get_new(s.id_list)
             e  == [id |-> id, res |-> 0, handle |-> handle]
         IN [ret |-> 0, res_id |-> id,
             id_list |-> idr_insert(s.id_list, id, e),
             res_list |-> list_add(e, s.res_list),
             calls |-> <<req_ok>>, nh |-> handle]

(***************************************************************************)
(* rprm_resource_request on the connection s; nh counts the handles the    *)
(* drivers have handed out, the next one is nh + 1.                        *)
(***************************************************************************)
rprm_resource_request(s, idx, env, nh) ==
    LET fail(ret, calls, n) ==
            [ret |-> ret, res_id |-> NULL, id_list |-> s.id_list,
             res_list |-> s.res_list, calls |-> calls, nh |-> n]
        handle == nh + 1
        req_ok == DrvCall("request", idx, handle, 0)
        undo   == DrvCall("release", idx, handle, env.rel)
    IN
    IF idx >= res_cnt(s.mgr) THEN fail(-EINVAL, <<>>, nh)
    ELSE IF ~env.kz THEN fail(-ENOMEM, <<>>, nh)
    ELSE IF env.req # 0
         THEN fail(env.req, <<DrvCall("request", idx, 0, env.req)>>, nh)
    ELSE IF ~env.pre THEN fail(-ENOMEM, <<req_ok, undo>>, handle)
    ELSE IF env.get # 0 THEN fail(env.get, <<req_ok, undo>>, handle)
    ELSE LET id == idr_get_new(s.id_list)
             e  == [id |-> id, res |-> idx, handle |-> handle]
         IN [ret |-> 0, res_id |-> id,
             id_list |-> idr_insert(s.id_list, id, e),
             res_list |-> list_add(e, s.res_list),
             calls |-> <<req_ok>>, nh |-> handle]

(***************************************************************************)
(* rprm_cb.                                                                *)
(***************************************************************************)
\* the ack length without the reset of len on error
AckPayload_keep(ret, len) == len

\* "in case of error, no need for any payload but the ack header"
AckPayload(ret, len) == IF ret # 0 THEN 0 ELSE len

\* the ack rprm_cb passes to rpmsg_sendto: len bytes sent to dst; res_id,
\* base and data are the payload and are part of the message only when it
\* is longer than the ack header
Ack(dst, action, ret, paylen, res_id, base, data) ==
    [kind |-> "ack", dst |-> dst, action |-> action, ret |-> ret,
     len |-> SizeofAck + paylen,
     res_id |-> IF paylen > 0 THEN res_id ELSE NULL,
     base |-> IF paylen > 0 THEN base ELSE NULL,
     data |-> IF paylen > 0 THEN data ELSE <<>>]

\* the result of a handler on connection s: the tables, the driver calls it
\* made, the messages it sent, its status and the handle counter
Result(s, ret, calls, sent, nh) ==
    [id_list |-> s.id_list, res_list |-> s.res_list, ret |-> ret,
     calls |-> calls, sent |-> sent, nh |-> nh]

\* the out: label; m is the message as it is in the receive buffer then
cb_out(m, ret, len, res_id, base) ==
    <<Ack(m.src, m.action, ret, AckPayload(ret, len), res_id, base, m.data)>>

\* cb_request that acknowledges every failed request with -EINVAL
cb_request_einval(s, m, len, env, nh) ==
    LET len2 == len - SizeofRequest
        out  == [m EXCEPT !.data = res_request_data(m.word, m.data, env.ch)]
    IN
    IF len2 < 0
    THEN Result(s, -EINVAL, <<>>, cb_out(m, -EINVAL, len2, NULL, NULL), nh)
    ELSE LET rr == rprm_resource_request(s, m.word, env, nh) IN
         [id_list |-> rr.id_list, res_list |-> rr.res_list, ret |-> rr.ret,
          calls |-> rr.calls,
          sent |-> cb_out(out, IF rr.ret # 0 THEN -EINVAL ELSE 0,
                          IF rr.ret # 0 THEN len2 ELSE len2 + SizeofRack,
                          rr.res_id, env.base),
          nh |-> rr.nh]

\* cb_request that returns, instead of breaking to out:, when the request
\* failed
cb_request_noack(s, m, len, env, nh) ==
    LET len2 == len - SizeofRequest
        out  == [m EXCEPT !.data = res_request_data(m.word, m.data, env.ch)]
    IN
    IF len2 < 0
    THEN Result(s, -EINVAL, <<>>, cb_out(m, -EINVAL, len2, NULL, NULL), nh)
    ELSE LET rr == rprm_resource_request(s, m.word, env, nh) IN
         [id_list |-> rr.id_list, res_list |-> rr.res_list, ret |-> rr.ret,
          calls |-> rr.calls,
          sent |-> IF rr.ret # 0 THEN <<>>
                   ELSE cb_out(out, rr.ret, len2 + SizeofRack, rr.res_id,
                               env.base),
          nh |-> rr.nh]

cb_request(s, m, len, env, nh) ==
    LET len2 == len - SizeofRequest
        out  == [m EXCEPT !.data = res_request_data(m.word, m.data, env.ch)]
    IN
    IF len2 < 0
    THEN Result(s, -EINVAL, <<>>, cb_out(m, -EINVAL, len2, NULL, NULL), nh)
    ELSE LET rr == rprm_resource_request(s, m.word, env, nh) IN
         [id_list |-> rr.id_list, res_list |-> rr.res_list, ret |-> rr.ret,
          calls |-> rr.calls,
          sent |-> cb_out(out, rr.ret,
                          IF rr.ret # 0 THEN len2 ELSE len2 + SizeofRack,
                          rr.res_id, env.base),
          nh |-> rr.nh]

\* cb_release that breaks to out:, instead of returning, after the release
cb_release_ack(s, m, len, r, nh) ==
    LET len2 == len - SizeofRelease IN
    IF len2 < 0
    THEN Result(s, NoRet, <<>>, <<>>, nh)
    ELSE LET rr == rprm_resource_release(s, m.word, r) IN
         [id_list |-> rr.id_list, res_list |-> rr.res_list, ret |-> rr.ret,
          calls |-> rr.calls, sent |-> cb_out(m, rr.ret, len2, NULL, NULL),
          nh |-> nh]

cb_release(s, m, len, r, nh) ==
    LET len2 == len - SizeofRelease IN
    IF len2 < 0
    THEN Result(s, NoRet, <<>>, <<>>, nh)
    ELSE LET rr == rprm_resource_release(s, m.word, r) IN
         [id_list |-> rr.id_list, res_list |-> rr.res_list, ret |-> rr.ret,
          calls |-> rr.calls, sent |-> <<>>, nh |-> nh]

\* rprm_cb that answers a message without the common header with -EINVAL
rprm_cb_ackrunt(s, dst, m, env, r, nh) ==
    LET len == m.len - SizeofMsg IN
    IF len < 0
    THEN Result(s, -EINVAL, <<>>, cb_out(m, -EINVAL, 0, NULL, NULL), nh)
    ELSE IF dst # m.src
         THEN Result(s, -ENOTCONN, <<>>,
                     cb_out(m, -ENOTCONN, len, NULL, NULL), nh)
    ELSE IF m.action = RPRM_REQUEST THEN cb_request(s, m, len, env, nh)
    ELSE IF m.action = RPRM_RELEASE THEN cb_release(s, m, len, r, nh)
    ELSE Result(s, -EINVAL, <<>>, cb_out(m, -EINVAL, len, NULL, NULL), nh)

\* rprm_cb that returns on an unknown action instead of falling to out:
rprm_cb_dropunknown(s, dst, m, env, r, nh) ==
    LET len == m.len - SizeofMsg IN
    IF len < 0 THEN Result(s, NoRet, <<>>, <<>>, nh)
    ELSE IF dst # m.src
         THEN Result(s, -ENOTCONN, <<>>,
                     cb_out(m, -ENOTCONN, len, NULL, NULL), nh)
    ELSE IF m.action = RPRM_REQUEST THEN cb_request(s, m, len, env, nh)
    ELSE IF m.action = RPRM_RELEASE THEN cb_release(s, m, len, r, nh)
    ELSE Result(s, -EINVAL, <<>>, <<>>, nh)

\* rprm_cb that accepts actions from every endpoint
rprm_cb_anysrc(s, dst, m, env, r, nh) ==
    LET len == m.len - SizeofMsg IN
    IF len < 0 THEN Result(s, NoRet, <<>>, <<>>, nh)
    ELSE IF m.action = RPRM_REQUEST THEN cb_request(s, m, len, env, nh)
    ELSE IF m.action = RPRM_RELEASE THEN cb_release(s, m, len, r, nh)
    ELSE Result(s, -EINVAL, <<>>, cb_out(m, -EINVAL, len, NULL, NULL), nh)

\* s: the connection, dst: rpdev->dst, m: the message, env: what the
\* environment answers to a request, r: what the driver answers to a release
rprm_cb(s, dst, m, env, r, nh) ==
    LET len == m.len - SizeofMsg IN
    IF len < 0 THEN Result(s, NoRet, <<>>, <<>>, nh)
    ELSE IF dst # m.src
         THEN Result(s, -ENOTCONN, <<>>,
                     cb_out(m, -ENOTCONN, len, NULL, NULL), nh)
    ELSE IF m.action = RPRM_REQUEST THEN cb_request(s, m, len, env, nh)
    ELSE IF m.action = RPRM_RELEASE THEN cb_release(s, m, len, r, nh)
    ELSE Result(s, -EINVAL, <<>>, cb_out(m, -EINVAL, len, NULL, NULL), nh)

(***************************************************************************)
(* rprm_remove: the list_for_each_entry_safe loop over res_list, head      *)
(* first; rets[i] is what res->release returns for the i-th element.       *)
(***************************************************************************)
RECURSIVE remove_loop(_, _, _, _)
remove_loop(list, todo, rets, i) ==
    IF todo = <<>> THEN [res_list |-> list, calls |-> <<>>]
    ELSE LET rr   == _resource_release(list, Head(todo), rets[i])
             rest == remove_loop(rr.res_list, Tail(todo), rets, i + 1)
         IN [res_list |-> rest.res_list, calls |-> rr.calls \o rest.calls]

rprm_remove(s, rets) ==
    LET lp == remove_loop(s.res_list, s.res_list, rets, 1) IN
    [id_list |-> {}, res_list |-> lp.res_list, calls |-> lp.calls]

(***************************************************************************)
(* The manager registry.                                                   *)
(***************************************************************************)
\* a manager whose name pointer is NULL
NoName == ""

__find_mgr_by_name(table, name) == \E i \in 1..Len(table) : table[i] = name

\* list_del(&mgr->next)
mgr_del(table, name) == SelectSeq(table, LAMBDA n : n # name)

rprm_manager_register(table, name) ==
    IF name = NoName THEN [ret |-> -EINVAL, table |-> table]
    ELSE IF __find_mgr_by_name(table, name)
         THEN [ret |-> -EEXIST, table |-> table]
    ELSE [ret |-> 0, table |-> Append(table, name)]

\* rprm_manager_unregister without the module_refcount check
rprm_manager_unregister_force(table, name, refs) ==
    [ret |-> 0, table |-> mgr_del(table, name)]

rprm_manager_unregister(table, name, refs) ==
    IF refs # 0 THEN [ret |-> -EBUSY, table |-> table]
    ELSE [ret |-> 0, table |-> mgr_del(table, name)]

(***************************************************************************)
(* State.                                                                  *)
(***************************************************************************)
VARIABLES
    mgr_table,   \* the registered managers, by name, in list order
    refcnt,      \* module_refcount(mgr->owner) of every manager
    rprm,        \* per channel: the connection (struct rprm) of its device
    nhandle,     \* handles the resource drivers have handed out
    last,        \* the last handler that ran: its input and what it did
    mutex,       \* per channel: the thread that holds rprm->lock, or "free"
    pc,          \* per channel and thread: where it is in its function
    acc,         \* the last step a thread took inside a function
    table_lock,  \* the platform device that holds table_lock, or 0
    dpc,         \* per platform device: where it is in register/unregister
    variant,     \* name-keyed variant: which of its two sources runs
    res_table,   \* name-keyed variant: the registered descriptors, in order
    ch_table,    \* name-keyed variant: the connected channels, head first
    res_lock,    \* name-keyed variant: who holds its table_lock, or 0
    rpc,         \* per descriptor: where its rprm_resource_register is
    flast,       \* name-keyed variant: the last call of the registry
    omap,        \* the OMAP resources: hardware reserved, depots, last request
    oproc        \* the OMAP remote processor driver: struct omap_rproc

vars ==
    <<mgr_table, refcnt, rprm, nhandle, last, mutex, pc, acc, table_lock, dpc,
      variant, res_table, ch_table, res_lock, rpc, flast, omap, oproc>>

\* the state of the OMAP resource drivers and of the OMAP remote processor
\* driver (see SpecOmap and SpecPm)
hw == <<omap, oproc>>

\* rproc->notifyids: the ids of the registered vrings
Vqs == {0, 1}

\* struct omap_rproc after omap_rproc_start, and the threads that run its
\* code.  on: the device is enabled; has_idle, idled: the idle register and
\* its masked bit; mbox: the vring indices waiting in the mailbox; kpc, ppc:
\* where the kicking contexts and the power-management thread are; reqno,
\* pending, replies: the suspend requests sent, those not answered, and the
\* answers received; defer: the vrings whose kick found the processor
\* suspended and that were not kicked since; pm: the last suspend or resume
\* that returned
NoOproc ==
    [suspended |-> FALSE, need_kick |-> FALSE, suspend_acked |-> FALSE,
     done |-> 0, on |-> TRUE, has_idle |-> TRUE, idled |-> FALSE,
     mbox |-> {}, kpc |-> [v \in Vqs |-> "idle"], ppc |-> "idle", i |-> 0,
     auto |-> FALSE, timedout |-> FALSE, reqno |-> 0, pending |-> {},
     replies |-> {}, defer |-> {},
     pm |-> [op |-> "none", ret |-> 0]]

\* the state of the statement-level view of the registry (see SpecReg)
reg == <<table_lock, dpc>>

\* the omap-rprm platform devices, each with its own struct rprm_manager
Devs == {1, 2}

\* pdata->mgr_name of a platform device
mgr_name(d) == "rprm-ducati"

\* a device outside the registry functions; reg: its manager is registered
DevIdle(isreg) == [at |-> "idle", ret |-> 0, reg |-> isreg]

InitReg ==
    /\ table_lock = 0
    /\ dpc = [d \in Devs |-> DevIdle(FALSE)]

\* the state of the name-keyed variant (see SpecFlat)
flat == <<variant, res_table, ch_table, res_lock, rpc, flast>>

\* the two sources of the name-keyed variant: rpmsg_resmgr.c keeps the
\* channels in ch_table and guards both tables with a rw-semaphore, the
\* earlier one has no ch_table and guards res_table with a spinlock
FlatVariants == {"ch_table", "spinlock"}

\* the struct rprm_res descriptors that resource drivers may register;
\* descriptors 1 and 2 carry the same name
FDescs == {1, 2, 3}

res_name(d) == IF d = 3 THEN "sdma" ELSE "gptimer"

\* a thread that died inside list_del while it held table_lock
DEAD == -2

\* a driver outside rprm_resource_register
RegIdle == [at |-> "idle", ret |-> NoRet]

\* the last call of the registry, if no channel function ran since; op: the
\* function, desc: its descriptor, ret: its status (NoRet: it did not
\* return), calls: the driver calls it made
FLast(op, d, ret, calls) ==
    [op |-> op, desc |-> d, ret |-> ret, calls |-> calls]

NoFLast == FLast("none", NULL, 0, <<>>)

InitFlat ==
    /\ variant = "ch_table"
    /\ res_table = <<>>
    /\ ch_table = <<>>
    /\ res_lock = 0
    /\ rpc = [d \in FDescs |-> RegIdle]
    /\ flast = NoFLast

\* the platform data of rprm-ducati: the gptimers (id and gptn are equal)
\* and the auxiliary clocks it may grant
omap4_ducati_gpts == {3, 4, 9, 11}
omap4_auxclks == 0..3

\* no hardware reserved, no depot, no request yet; req: the last request for
\* a resource, with its arguments, what the resource driver returned (NoRet:
\* it was not called) and the status of the request
NoOmap ==
    [gpt |-> {}, clk |-> [k \in omap4_auxclks |-> 0], dma |-> {},
     depot |-> {},
     req |-> [chan |-> 0, args |-> [idx |-> NULL], drv |-> NoRet, ret |-> 0,
              trace |-> <<>>]]

\* the state of the statement-level view of the handlers (see SpecSteps)
steps == <<mutex, pc, acc>>

\* the contexts that run code of one connection: the rpmsg receive callback,
\* the bus removing the channel, a reader of the debugfs file
Threads == {"cb", "rm", "dbg"}

\* a thread outside the driver
Idle == [at |-> "idle", arg |-> NULL, e |-> NULL_ELEM]

\* no step yet
NoAcc ==
    [chan |-> 0, t |-> "none", fn |-> "none", obj |-> "none", wr |-> FALSE,
     held |-> FALSE, drv |-> "none"]

InitSteps ==
    /\ mutex = [c \in Chans2 |-> "free"]
    /\ pc = [c \in Chans2 |-> [t \in Threads |-> Idle]]
    /\ acc = NoAcc

\* a channel without connection: no drvdata
NoRprm == [live |-> FALSE, mgr |-> NoName, id_list |-> {}, res_list |-> <<>>]

\* the handles of the elements in an id table
idr_handles(idp) == {p.ptr.handle : p \in idp}

\* the id table and the list of a connection
Tables(s) == [id_list |-> s.id_list, res_list |-> s.res_list]

\* op: the handler, chan: its channel, name: its manager, msg: its message,
\* pre: the channel's id table and list when it started, ret: its status,
\* calls: the driver calls it made, sent: the messages it sent
Last(op, c, name, m, pre, ret, calls, sent) ==
    [op |-> op, chan |-> c, name |-> name, msg |-> m, pre |-> pre,
     ret |-> ret, calls |-> calls, sent |-> sent]

Init ==
    /\ mgr_table = <<>>
    /\ refcnt = [n \in MgrNames |-> 0]
    /\ rprm = [c \in Chans |-> NoRprm]
    /\ nhandle = 0
    /\ last = Last("init", 0, NoName, NoMsg, Tables(NoRprm), 0, <<>>, <<>>)
    /\ InitSteps
    /\ InitReg
    /\ InitFlat
    /\ omap = NoOmap
    /\ oproc = NoOproc

ManagerRegister(name) ==
    LET r == rprm_manager_register(mgr_table, name) IN
    /\ mgr_table' = r.table
    /\ last' = Last("register", 0, name, NoMsg, Tables(NoRprm), r.ret, <<>>, <<>>)
    /\ UNCHANGED <<hw, flat, reg, refcnt, rprm, nhandle, steps>>

\* called by the driver that registered the manager
ManagerUnregister(name) ==
    /\ __find_mgr_by_name(mgr_table, name)
    /\ LET r == rprm_manager_unregister(mgr_table, name, refcnt[name]) IN
       /\ mgr_table' = r.table
       /\ last' = Last("unregister", 0, name, NoMsg, Tables(NoRprm), r.ret, <<>>, <<>>)
    /\ UNCHANGED <<hw, flat, reg, refcnt, rprm, nhandle, steps>>

\* the connect ack of a rprm_probe that does not set ack.ret either
ConnectAck_noret(c, ret, g) ==
    [kind |-> "connect", dst |-> rpdev_dst(c), action |-> g,
     ret |-> g, len |-> SizeofAck, res_id |-> NULL, base |-> NULL,
     data |-> <<>>]

\* the connect ack of rprm_probe: a struct rprm_ack of which only ret is set
ConnectAck(c, ret, g) ==
    [kind |-> "connect", dst |-> rpdev_dst(c), action |-> g,
     ret |-> ret, len |-> SizeofAck, res_id |-> NULL, base |-> NULL,
     data |-> <<>>]

\* rprm_probe that goes to out: without setting ret when no manager has
\* the name
probe_ret_unset(found, modget, km) ==
    IF ~found THEN 0
    ELSE IF ~modget THEN -EINVAL
    ELSE IF ~km THEN -ENOMEM
    ELSE 0

\* what rprm_probe returns; found: a manager has the name, modget: the
\* return of try_module_get, km: kmalloc of the connection succeeded
probe_ret(found, modget, km) ==
    IF ~found THEN -ENOENT
    ELSE IF ~modget THEN -EINVAL
    ELSE IF ~km THEN -ENOMEM
    ELSE 0

\* rprm_probe without the module_put after a failed kmalloc
probe_refs_noput(found, modget, km) ==
    IF found /\ modget THEN 1 ELSE 0

\* the references on mgr->owner rprm_probe holds when it returns
probe_refs(found, modget, km) ==
    IF found /\ modget /\ km THEN 1 ELSE 0

\* rprm_probe of channel c, created with the name `name`; g: stack garbage
Probe(c, name, modget, km, g) ==
    /\ ~rprm[c].live
    /\ LET found == __find_mgr_by_name(mgr_table, name)
           ret == probe_ret(found, modget, km)
       IN
       /\ refcnt' = [refcnt EXCEPT
                        ![name] = @ + probe_refs(found, modget, km)]
       /\ rprm' = IF ret = 0
                  THEN [rprm EXCEPT ![c] = [live |-> TRUE, mgr |-> name,
                                            id_list |-> {}, res_list |-> <<>>]]
                  ELSE [rprm EXCEPT ![c] = NoRprm]
       /\ last' = Last("probe", c, name, NoMsg, Tables(rprm[c]), ret, <<>>,
                       <<ConnectAck(c, ret, g)>>)
    /\ UNCHANGED <<hw, flat, reg, mgr_table, nhandle, steps>>

\* rprm_cb with one id table and one list for all the connections
Cb_shared(c, m, env, r) ==
    /\ rprm[c].live
    /\ LET res == rprm_cb(rprm[c], rpdev_dst(c), m, env, r, nhandle) IN
       /\ rprm' = [k \in DOMAIN rprm |->
                      IF rprm[k].live
                      THEN [rprm[k] EXCEPT !.id_list = res.id_list,
                                           !.res_list = res.res_list]
                      ELSE rprm[k]]
       /\ nhandle' = res.nh
       /\ last' = Last("cb", c, rprm[c].mgr, m, Tables(rprm[c]),
                       res.ret, res.calls, res.sent)
    /\ UNCHANGED <<hw, flat, reg, mgr_table, refcnt, steps>>

\* rprm_cb of channel c with message m
Cb(c, m, env, r) ==
    /\ rprm[c].live
    /\ LET res == rprm_cb(rprm[c], rpdev_dst(c), m, env, r, nhandle) IN
       /\ rprm' = [rprm EXCEPT ![c].id_list = res.id_list,
                               ![c].res_list = res.res_list]
       /\ nhandle' = res.nh
       /\ last' = Last("cb", c, rprm[c].mgr, m, Tables(rprm[c]),
                       res.ret, res.calls, res.sent)
    /\ UNCHANGED <<hw, flat, reg, mgr_table, refcnt, steps>>

\* rprm_remove of channel c
Remove(c, rets) ==
    /\ rprm[c].live
    /\ LET res == rprm_remove(rprm[c], rets) IN
       /\ rprm' = [rprm EXCEPT ![c].live = FALSE,
                               ![c].id_list = res.id_list,
                               ![c].res_list = res.res_list]
       /\ refcnt' = [refcnt EXCEPT ![rprm[c].mgr] = @ - 1]
       /\ last' = Last("remove", c, rprm[c].mgr, NoMsg,
                       Tables(rprm[c]), 0, res.calls, <<>>)
    /\ UNCHANGED <<hw, flat, reg, mgr_table, nhandle, steps>>

\* the inputs of rprm_cb that matter for message m
CbStep(c) ==
    \E m \in Msgs(c) :
        IF m.len >= SizeofMsg + SizeofRequest /\ m.src = rpdev_dst(c)
           /\ m.action = RPRM_REQUEST
        THEN \E env \in ReqEnvs(nhandle) : Cb(c, m, env, 0)
        ELSE IF m.len >= SizeofMsg + SizeofRelease /\ m.src = rpdev_dst(c)
                /\ m.action = RPRM_RELEASE
        THEN \E r \in {0} \cup DrvRelErrs : Cb(c, m, NoEnv, r)
        ELSE Cb(c, m, NoEnv, 0)

Next ==
    \/ \E name \in MgrNames \cup {NoName} : ManagerRegister(name)
    \/ \E name \in MgrNames : ManagerUnregister(name)
    \/ \E c \in Chans, name \in rprm_id_table, modget, km \in BOOLEAN,
          g \in Garbage : Probe(c, name, modget, km, g)
    \/ \E c \in Chans : CbStep(c)
    \/ \E c \in Chans :
          \E rets \in [1..Len(rprm[c].res_list) -> {0} \cup DrvRelErrs] :
              Remove(c, rets)

Spec == Init /\ [][Next]_vars

(***************************************************************************)
(* The handlers statement by statement.  A step is one lock operation, one *)
(* access to rprm->id_list or rprm->res_list, or one driver call; acc      *)
(* records which table the step touched, whether the thread held           *)
(* rprm->lock, and which driver function it called.                        *)
(***************************************************************************)
\* the connection after rprm_manager_register and a successful rprm_probe
ActiveRprm ==
    [live |-> TRUE, mgr |-> "rprm-ducati", id_list |-> {}, res_list |-> <<>>]

InitActive ==
    /\ mgr_table = <<"rprm-ducati">>
    /\ refcnt = [n \in MgrNames |-> Cardinality(Chans)]
    /\ rprm = [c \in Chans |-> ActiveRprm]
    /\ nhandle = 0
    /\ last = Last("init", 0, NoName, NoMsg, Tables(NoRprm), 0, <<>>, <<>>)
    /\ InitSteps
    /\ InitReg
    /\ InitFlat
    /\ omap = NoOmap
    /\ oproc = NoOproc

Access(c, t, fn, obj, wr, drv) ==
    [chan |-> c, t |-> t, fn |-> fn, obj |-> obj, wr |-> wr,
     held |-> mutex[c] = t, drv |-> drv]

At(c, t, l) == pc[c][t].at = l

Goto(c, t, l) == pc' = [pc EXCEPT ![c][t].at = l]

\* the rpmsg bus hands a message to rprm_cb: one message of a channel at a
\* time, none once the removal of the channel has begun
rpmsg_delivers(c) ==
    /\ rprm[c].live
    /\ At(c, "cb", "idle")
    /\ At(c, "rm", "idle")

\* a bus that starts the removal of a channel whatever rprm_cb is doing
rpmsg_removes_anytime(c) ==
    /\ rprm[c].live
    /\ At(c, "rm", "idle")

\* the rpmsg bus calls rprm_remove: once per channel, after the callback
\* that is running has returned
rpmsg_removes(c) ==
    /\ rprm[c].live
    /\ At(c, "rm", "idle")
    /\ At(c, "cb", "idle")

\* mutex_lock(&rprm->lock) and the statement after it, by function
LockSites ==
    {<<"cb", "req_lock", "req_idr">>, <<"cb", "rel_lock", "rel_find">>,
     <<"rm", "rm_lock", "rm_loop">>, <<"dbg", "dbg_lock", "dbg_walk">>}

\* mutex_unlock(&rprm->lock) and the statement after it, by function
UnlockSites ==
    {<<"cb", "req_unlock", "idle">>, <<"cb", "req_err_unlock", "req_err_rel">>,
     <<"cb", "rel_unlock", "rel_drv">>, <<"cb", "rel_unlock_err", "idle">>,
     <<"rm", "rm_unlock", "rm_put">>, <<"dbg", "dbg_unlock", "idle">>}

StepLock(c, site) ==
    /\ At(c, site[1], site[2])
    /\ mutex[c] = "free"
    /\ mutex' = [mutex EXCEPT ![c] = site[1]]
    /\ Goto(c, site[1], site[3])
    /\ acc' = Access(c, site[1], "mutex_lock", "none", FALSE, "none")
    /\ UNCHANGED <<hw, flat, reg, mgr_table, refcnt, rprm, nhandle, last>>

StepUnlock(c, site) ==
    /\ At(c, site[1], site[2])
    /\ mutex' = [mutex EXCEPT ![c] = "free"]
    /\ Goto(c, site[1], site[3])
    /\ acc' = Access(c, site[1], "mutex_unlock", "none", FALSE, "none")
    /\ UNCHANGED <<hw, flat, reg, mgr_table, refcnt, rprm, nhandle, last>>

\* rprm_cb that takes table_lock to look at the manager and keeps it over
\* res->request
StepCbRequest_tablelock(c, idx) ==
    /\ rpmsg_delivers(c)
    /\ idx < res_cnt(rprm[c].mgr)
    /\ table_lock = 0
    /\ table_lock' = 10 + c
    /\ pc' = [pc EXCEPT ![c]["cb"] = [Idle EXCEPT !.at = "req_drv",
                                                 !.arg = idx]]
    /\ acc' = Access(c, "cb", "rprm_cb", "none", FALSE, "none")
    /\ UNCHANGED <<hw, flat, dpc, mgr_table, refcnt, rprm, nhandle, last, mutex>>

\* rprm_cb with a request for resource idx: up to res->request
StepCbRequest(c, idx) ==
    /\ rpmsg_delivers(c)
    /\ idx < res_cnt(rprm[c].mgr)
    /\ pc' = [pc EXCEPT ![c]["cb"] = [Idle EXCEPT !.at = "req_drv",
                                                 !.arg = idx]]
    /\ acc' = Access(c, "cb", "rprm_cb", "none", FALSE, "none")
    /\ UNCHANGED <<hw, flat, reg, mgr_table, refcnt, rprm, nhandle, last, mutex>>

\* res->request returns r
StepReqDrv(c, r) ==
    /\ At(c, "cb", "req_drv")
    /\ r = 0 => nhandle < MaxHandles
    /\ IF r = 0
       THEN /\ nhandle' = nhandle + 1
            /\ pc' = [pc EXCEPT ![c]["cb"].at = "req_lock",
                                ![c]["cb"].e = [id |-> NULL,
                                                res |-> pc[c]["cb"].arg,
                                                handle |-> nhandle + 1]]
       ELSE /\ nhandle' = nhandle
            /\ pc' = [pc EXCEPT ![c]["cb"] = Idle]
    /\ acc' = Access(c, "cb", "rprm_resource_request", "none", FALSE,
                     "request")
    /\ UNCHANGED <<hw, flat, reg, mgr_table, refcnt, rprm, last, mutex>>

\* rprm_resource_request whose error path skips mutex_unlock
StepReqIdr_nounlock(c, ok) ==
    /\ At(c, "cb", "req_idr")
    /\ IF ok
       THEN LET id == idr_get_new(rprm[c].id_list)
                e  == [pc[c]["cb"].e EXCEPT !.id = id]
            IN /\ rprm' = [rprm EXCEPT ![c].id_list = idr_insert(@, id, e)]
               /\ pc' = [pc EXCEPT ![c]["cb"].at = "req_add",
                                   ![c]["cb"].e = e]
       ELSE /\ \E ret \in {-ENOMEM, -EAGAIN} :
                   pc' = [pc EXCEPT ![c]["cb"].at = "req_err_rel",
                                    ![c]["cb"].arg = ret]
            /\ UNCHANGED rprm
    /\ acc' = Access(c, "cb", "rprm_resource_request", "id_list", TRUE,
                     "none")
    /\ UNCHANGED <<hw, flat, reg, mgr_table, refcnt, nhandle, last, mutex>>

\* idr_pre_get and idr_get_new; ok: both succeeded
StepReqIdr(c, ok) ==
    /\ At(c, "cb", "req_idr")
    /\ IF ok
       THEN LET id == idr_get_new(rprm[c].id_list)
                e  == [pc[c]["cb"].e EXCEPT !.id = id]
            IN /\ rprm' = [rprm EXCEPT ![c].id_list = idr_insert(@, id, e)]
               /\ pc' = [pc EXCEPT ![c]["cb"].at = "req_add",
                                   ![c]["cb"].e = e]
       ELSE /\ \E ret \in {-ENOMEM, -EAGAIN} :
                   pc' = [pc EXCEPT ![c]["cb"].at = "req_err_unlock",
                                    ![c]["cb"].arg = ret]
            /\ UNCHANGED rprm
    /\ acc' = Access(c, "cb", "rprm_resource_request", "id_list", TRUE,
                     "none")
    /\ UNCHANGED <<hw, flat, reg, mgr_table, refcnt, nhandle, last, mutex>>

\* list_add(&e->next, &rprm->res_list)
StepReqAdd(c) ==
    /\ At(c, "cb", "req_add")
    /\ rprm' = [rprm EXCEPT ![c].res_list = list_add(pc[c]["cb"].e, @)]
    /\ Goto(c, "cb", "req_unlock")
    /\ acc' = Access(c, "cb", "rprm_resource_request", "res_list", TRUE,
                     "none")
    /\ UNCHANGED <<hw, flat, reg, mgr_table, refcnt, nhandle, last, mutex>>

\* err_unlock: res->release(mgr, e->handle) after the unlock, kfree(e) and
\* the return of the error (in arg) to rprm_cb, which acknowledges it
StepReqErrRel(c) ==
    /\ At(c, "cb", "req_err_rel")
    /\ pc' = [pc EXCEPT ![c]["cb"] = Idle]
    /\ acc' = Access(c, "cb", "rprm_resource_request", "none", FALSE,
                     "release")
    /\ LET e == pc[c]["cb"].e
           m == Msg(SizeofMsg + SizeofRequest, RPRM_REQUEST, e.res, <<>>,
                    rpdev_dst(c))
       IN last' = Last("cb", c, rprm[c].mgr, m, Tables(rprm[c]),
                       pc[c]["cb"].arg,
                       <<DrvCall("release", e.res, e.handle, 0)>>,
                       cb_out(m, pc[c]["cb"].arg, 0, NULL, NULL))
    /\ UNCHANGED <<hw, flat, reg, mgr_table, refcnt, rprm, nhandle, mutex>>

\* rprm_cb with a release of res_id: up to mutex_lock
StepCbRelease(c, res_id) ==
    /\ rpmsg_delivers(c)
    /\ pc' = [pc EXCEPT ![c]["cb"] = [Idle EXCEPT !.at = "rel_lock",
                                                 !.arg = res_id]]
    /\ acc' = Access(c, "cb", "rprm_cb", "none", FALSE, "none")
    /\ UNCHANGED <<hw, flat, reg, mgr_table, refcnt, rprm, nhandle, last, mutex>>

\* e = idr_find(&rprm->id_list, res_id)
StepRelFind(c) ==
    /\ At(c, "cb", "rel_find")
    /\ LET e == idr_find(rprm[c].id_list, pc[c]["cb"].arg) IN
       pc' = [pc EXCEPT ![c]["cb"].e = e,
                        ![c]["cb"].at = IF e = NULL_ELEM THEN "rel_unlock_err"
                                        ELSE "rel_remove"]
    /\ acc' = Access(c, "cb", "rprm_resource_release", "id_list", FALSE,
                     "none")
    /\ UNCHANGED <<hw, flat, reg, mgr_table, refcnt, rprm, nhandle, last, mutex>>

\* idr_remove(&rprm->id_list, res_id)
StepRelRemove(c) ==
    /\ At(c, "cb", "rel_remove")
    /\ rprm' = [rprm EXCEPT ![c].id_list = idr_remove(@, pc[c]["cb"].arg)]
    /\ Goto(c, "cb", "rel_unlock")
    /\ acc' = Access(c, "cb", "rprm_resource_release", "id_list", TRUE,
                     "none")
    /\ UNCHANGED <<hw, flat, reg, mgr_table, refcnt, nhandle, last, mutex>>

\* _resource_release called by rprm_resource_release: res->release returns r
StepRelDrv(c, r) ==
    /\ At(c, "cb", "rel_drv")
    /\ pc' = IF r # 0 THEN [pc EXCEPT ![c]["cb"] = Idle]
             ELSE [pc EXCEPT ![c]["cb"].at = "rel_del"]
    /\ acc' = Access(c, "cb", "_resource_release", "none", FALSE, "release")
    /\ UNCHANGED <<hw, flat, reg, mgr_table, refcnt, rprm, nhandle, last, mutex>>

\* ... and its list_del(&e->next)
StepRelDel(c) ==
    /\ At(c, "cb", "rel_del")
    /\ rprm' = [rprm EXCEPT ![c].res_list = list_del(pc[c]["cb"].e, @)]
    /\ pc' = [pc EXCEPT ![c]["cb"] = Idle]
    /\ acc' = Access(c, "cb", "_resource_release", "res_list", TRUE, "none")
    /\ UNCHANGED <<hw, flat, reg, mgr_table, refcnt, nhandle, last, mutex>>

\* rprm_remove is called
StepRmBegin(c) ==
    /\ rpmsg_removes(c)
    /\ pc' = [pc EXCEPT ![c]["rm"] = [Idle EXCEPT !.at = "rm_lock",
                                                 !.arg = 0]]
    /\ acc' = Access(c, "rm", "rprm_remove", "none", FALSE, "none")
    /\ UNCHANGED <<hw, flat, reg, mgr_table, refcnt, rprm, nhandle, last, mutex>>

\* one turn of list_for_each_entry_safe: _resource_release of the element
\* after the arg elements whose release failed; res->release returns r
StepRmLoop(c, r) ==
    /\ At(c, "rm", "rm_loop")
    /\ pc[c]["rm"].arg < Len(rprm[c].res_list)
    /\ LET e  == rprm[c].res_list[pc[c]["rm"].arg + 1]
           rr == _resource_release(rprm[c].res_list, e, r)
       IN /\ rprm' = [rprm EXCEPT ![c].res_list = rr.res_list]
          /\ pc' = [pc EXCEPT ![c]["rm"].arg = IF r # 0 THEN @ + 1 ELSE @]
    /\ acc' = Access(c, "rm", "_resource_release", "res_list", r = 0,
                     "release")
    /\ UNCHANGED <<hw, flat, reg, mgr_table, refcnt, nhandle, last, mutex>>

\* the loop is over: idr_remove_all and idr_destroy
StepRmIdr(c) ==
    /\ At(c, "rm", "rm_loop")
    /\ pc[c]["rm"].arg >= Len(rprm[c].res_list)
    /\ rprm' = [rprm EXCEPT ![c].id_list = {}]
    /\ Goto(c, "rm", "rm_unlock")
    /\ acc' = Access(c, "rm", "rprm_remove", "id_list", TRUE, "none")
    /\ UNCHANGED <<hw, flat, reg, mgr_table, refcnt, nhandle, last, mutex>>

\* module_put(rprm->mgr->owner) and kfree(rprm)
StepRmPut(c) ==
    /\ At(c, "rm", "rm_put")
    /\ refcnt' = [refcnt EXCEPT ![rprm[c].mgr] = @ - 1]
    /\ rprm' = [rprm EXCEPT ![c].live = FALSE]
    /\ Goto(c, "rm", "done")
    /\ acc' = Access(c, "rm", "rprm_remove", "none", FALSE, "none")
    /\ UNCHANGED <<hw, flat, reg, mgr_table, nhandle, last, mutex>>

\* a read of the debugfs file of the connection: rprm_dbg_read is called
StepDbgBegin(c) ==
    /\ rprm[c].live
    /\ At(c, "dbg", "idle")
    /\ Goto(c, "dbg", "dbg_lock")
    /\ acc' = Access(c, "dbg", "rprm_dbg_read", "none", FALSE, "none")
    /\ UNCHANGED <<hw, flat, reg, mgr_table, refcnt, rprm, nhandle, last, mutex>>

\* the element after e in the list, NULL_ELEM when e is the last one; the
\* first element when e is NULL_ELEM (the list head)
list_next(list, e) ==
    LET i == IF e = NULL_ELEM THEN 0
             ELSE CHOOSE k \in DOMAIN list : list[k] = e
    IN IF i < Len(list) THEN list[i + 1] ELSE NULL_ELEM

\* one turn of its list_for_each_entry over rprm->res_list: the cursor e
\* moves to e->next, and the loop ends at the list head. When the element
\* under the cursor was unlinked and freed meanwhile, e->next is a read of
\* freed memory: the read faults (fault), or yields something that ends the
\* loop
StepDbgWalk(c, fault) ==
    /\ At(c, "dbg", "dbg_walk")
    /\ LET e == pc[c]["dbg"].e
           freed == /\ e # NULL_ELEM
                    /\ \A k \in DOMAIN rprm[c].res_list :
                          rprm[c].res_list[k] # e
           next == IF freed THEN NULL_ELEM ELSE list_next(rprm[c].res_list, e)
       IN /\ fault => freed
          /\ pc' = [pc EXCEPT ![c]["dbg"].e = next,
                              ![c]["dbg"].at =
                                  IF fault THEN "dbg_fault"
                                  ELSE IF next = NULL_ELEM THEN "dbg_unlock"
                                  ELSE "dbg_walk"]
    /\ acc' = Access(c, "dbg", "rprm_dbg_read", "res_list", FALSE, "none")
    /\ UNCHANGED <<hw, flat, reg, mgr_table, refcnt, rprm, nhandle, last, mutex>>

NextSteps ==
    \E c \in Chans :
        \/ \E site \in LockSites : StepLock(c, site)
        \/ \E site \in UnlockSites : StepUnlock(c, site)
        \/ \E idx \in Idxs : StepCbRequest(c, idx)
        \/ \E r \in {0} \cup DrvReqErrs : StepReqDrv(c, r)
        \/ \E ok \in BOOLEAN : StepReqIdr(c, ok)
        \/ StepReqAdd(c)
        \/ StepReqErrRel(c)
        \/ \E res_id \in ResIds : StepCbRelease(c, res_id)
        \/ StepRelFind(c)
        \/ StepRelRemove(c)
        \/ \E r \in {0} \cup DrvRelErrs : StepRelDrv(c, r)
        \/ StepRelDel(c)
        \/ StepRmBegin(c)
        \/ \E r \in {0} \cup DrvRelErrs : StepRmLoop(c, r)
        \/ StepRmIdr(c)
        \/ StepRmPut(c)
        \/ StepDbgBegin(c)
        \/ \E fault \in BOOLEAN : StepDbgWalk(c, fault)

SpecSteps == InitActive /\ [][NextSteps]_vars

(***************************************************************************)
(* Two channels probed against the driver: the handlers of Spec, each one  *)
(* action, with the messages cut down to one request and one release.      *)
(***************************************************************************)
Init2 ==
    /\ mgr_table = <<>>
    /\ refcnt = [n \in MgrNames |-> 0]
    /\ rprm = [c \in Chans2 |-> NoRprm]
    /\ nhandle = 0
    /\ last = Last("init", 0, NoName, NoMsg, Tables(NoRprm), 0, <<>>, <<>>)
    /\ InitSteps
    /\ InitReg
    /\ InitFlat
    /\ omap = NoOmap
    /\ oproc = NoOproc

\* a request for resource 0 and the release of id 0, from the connected
\* endpoint
Msgs2(c) ==
    {Msg(SizeofMsg + SizeofRequest, RPRM_REQUEST, 0, <<>>, rpdev_dst(c)),
     Msg(SizeofMsg + SizeofRelease, RPRM_RELEASE, 0, <<>>, rpdev_dst(c))}

CbStep2(c) ==
    \E m \in Msgs2(c) :
        /\ m.action = RPRM_REQUEST => nhandle < MaxHandles
        /\ Cb(c, m, NoEnv, 0)

Next2 ==
    \/ \E name \in MgrNames : ManagerRegister(name)
    \/ \E name \in MgrNames : ManagerUnregister(name)
    \/ \E c \in Chans2, name \in rprm_id_table, modget, km \in BOOLEAN :
          Probe(c, name, modget, km, 0)
    \/ \E c \in Chans2 : CbStep2(c)
    \/ \E c \in Chans2 :
          \E rets \in [1..Len(rprm[c].res_list) -> {0} \cup DrvRelErrs] :
              Remove(c, rets)

Spec2 == Init2 /\ [][Next2]_vars

(***************************************************************************)
(* The registry statement by statement: every omap-rprm platform device    *)
(* registers its manager in omap_rprm_probe and unregisters it in          *)
(* omap_rprm_remove, concurrently with the other devices and with the      *)
(* probe and removal of rpmsg channels.                                    *)
(***************************************************************************)
\* a spin_lock that does not wait for the holder
spin_lock_nowait(lock) == TRUE

\* spin_lock(&table_lock) returns once nobody holds the lock
spin_lock(lock) == lock = 0

DevAt(d, l) == dpc[d].at = l

DevGoto(d, l) == dpc' = [dpc EXCEPT ![d].at = l]

\* omap_rprm_probe calls rprm_manager_register: mgr and mgr->name are set
DevRegister(d) ==
    /\ DevAt(d, "idle") /\ ~dpc[d].reg
    /\ dpc' = [dpc EXCEPT ![d].at = "reg_lock", ![d].ret = 0]
    /\ UNCHANGED <<hw, flat, mgr_table, refcnt, rprm, nhandle, last, steps, table_lock>>

\* omap_rprm_remove calls rprm_manager_unregister
DevUnregister(d) ==
    /\ DevAt(d, "idle") /\ dpc[d].reg
    /\ dpc' = [dpc EXCEPT ![d].at = "unreg_lock", ![d].ret = 0]
    /\ UNCHANGED <<hw, flat, mgr_table, refcnt, rprm, nhandle, last, steps, table_lock>>

\* spin_lock(&table_lock) of either function
RegLock(d) ==
    /\ DevAt(d, "reg_lock") \/ DevAt(d, "unreg_lock")
    /\ spin_lock(table_lock)
    /\ table_lock' = d
    /\ DevGoto(d, IF DevAt(d, "reg_lock") THEN "reg_find" ELSE "unreg_busy")
    /\ UNCHANGED <<hw, flat, mgr_table, refcnt, rprm, nhandle, last, steps>>

\* if (__find_mgr_by_name(mgr->name))
RegFind(d) ==
    /\ DevAt(d, "reg_find")
    /\ dpc' = IF __find_mgr_by_name(mgr_table, mgr_name(d))
              THEN [dpc EXCEPT ![d].at = "reg_unlock", ![d].ret = -EEXIST]
              ELSE [dpc EXCEPT ![d].at = "reg_add"]
    /\ UNCHANGED <<hw, flat, mgr_table, refcnt, rprm, nhandle, last, steps, table_lock>>

\* list_add_tail(&mgr->next, &mgr_table)
RegAdd(d) ==
    /\ DevAt(d, "reg_add")
    /\ mgr_table' = Append(mgr_table, mgr_name(d))
    /\ dpc' = [dpc EXCEPT ![d].at = "reg_unlock", ![d].reg = TRUE]
    /\ UNCHANGED <<hw, flat, refcnt, rprm, nhandle, last, steps, table_lock>>

\* if (module_refcount(mgr->owner))
UnregBusy(d) ==
    /\ DevAt(d, "unreg_busy")
    /\ dpc' = IF refcnt[mgr_name(d)] # 0
              THEN [dpc EXCEPT ![d].at = "unreg_unlock", ![d].ret = -EBUSY]
              ELSE [dpc EXCEPT ![d].at = "unreg_del"]
    /\ UNCHANGED <<hw, flat, mgr_table, refcnt, rprm, nhandle, last, steps, table_lock>>

\* list_del(&mgr->next)
UnregDel(d) ==
    /\ DevAt(d, "unreg_del")
    /\ mgr_table' = list_del(mgr_name(d), mgr_table)
    /\ dpc' = [dpc EXCEPT ![d].at = "unreg_unlock", ![d].reg = FALSE]
    /\ UNCHANGED <<hw, flat, refcnt, rprm, nhandle, last, steps, table_lock>>

\* spin_unlock(&table_lock) and the return of either function
RegUnlock(d) ==
    /\ DevAt(d, "reg_unlock") \/ DevAt(d, "unreg_unlock")
    /\ table_lock' = 0
    /\ DevGoto(d, "idle")
    /\ UNCHANGED <<hw, flat, mgr_table, refcnt, rprm, nhandle, last, steps>>

\* rprm_probe that looks the manager up without taking table_lock
RegProbe_nolock(c, modget, km) ==
    /\ At(c, "cb", "idle")
    /\ IF __find_mgr_by_name(mgr_table, "rprm-ducati") /\ modget /\ ~km
       THEN /\ ~rprm[c].live
            /\ refcnt' = [refcnt EXCEPT !["rprm-ducati"] = @ + 1]
            /\ Goto(c, "cb", "probe_put")
            /\ UNCHANGED <<hw, flat, reg, mgr_table, rprm, nhandle, last,
                           mutex, acc>>
       ELSE Probe(c, "rprm-ducati", modget, km, 0)

\* rprm_probe of a channel: its lookup and try_module_get are one step,
\* taken under table_lock; when they succeed and kmalloc of the connection
\* fails, the reference is given back later, outside the lock (RegProbePut)
RegProbe(c, modget, km) ==
    /\ spin_lock(table_lock)
    /\ At(c, "cb", "idle")
    /\ IF __find_mgr_by_name(mgr_table, "rprm-ducati") /\ modget /\ ~km
       THEN /\ ~rprm[c].live
            /\ refcnt' = [refcnt EXCEPT !["rprm-ducati"] = @ + 1]
            /\ Goto(c, "cb", "probe_put")
            /\ UNCHANGED <<hw, flat, reg, mgr_table, rprm, nhandle, last,
                           mutex, acc>>
       ELSE Probe(c, "rprm-ducati", modget, km, 0)

\* ... module_put(mgr->owner), ret = -ENOMEM and the connect ack at out:
RegProbePut(c) ==
    /\ At(c, "cb", "probe_put")
    /\ refcnt' = [refcnt EXCEPT !["rprm-ducati"] = @ - 1]
    /\ Goto(c, "cb", "idle")
    /\ last' = Last("probe", c, "rprm-ducati", NoMsg, Tables(rprm[c]),
                    probe_ret(TRUE, TRUE, FALSE), <<>>,
                    <<ConnectAck(c, probe_ret(TRUE, TRUE, FALSE), 0)>>)
    /\ UNCHANGED <<hw, flat, reg, mgr_table, rprm, nhandle, mutex, acc>>

\* rprm_remove of a channel without resources
RegRemove(c) ==
    /\ rpmsg_removes(c)
    /\ rprm[c].res_list = <<>>
    /\ Remove(c, <<>>)

\* the steps of rprm_cb on a channel, from the delivery of a request or a
\* release to its return
RegCb(c) ==
    \/ StepCbRequest(c, 0)
    \/ \E r \in {0} \cup DrvReqErrs : StepReqDrv(c, r)
    \/ \E ok \in BOOLEAN : StepReqIdr(c, ok)
    \/ StepReqAdd(c)
    \/ StepReqErrRel(c)
    \/ StepCbRelease(c, 0)
    \/ StepRelFind(c)
    \/ StepRelRemove(c)
    \/ \E r \in {0} \cup DrvRelErrs : StepRelDrv(c, r)
    \/ StepRelDel(c)
    \/ \E site \in {x \in LockSites : x[1] = "cb"} : StepLock(c, site)
    \/ \E site \in {x \in UnlockSites : x[1] = "cb"} : StepUnlock(c, site)

NextReg ==
    \/ \E d \in Devs :
          \/ DevRegister(d)
          \/ DevUnregister(d)
          \/ RegLock(d)
          \/ RegFind(d)
          \/ RegAdd(d)
          \/ UnregBusy(d)
          \/ UnregDel(d)
          \/ RegUnlock(d)
    \/ \E c \in Chans2, modget, km \in BOOLEAN : RegProbe(c, modget, km)
    \/ \E c \in Chans2 : RegProbePut(c)
    \/ \E c \in Chans2 : RegRemove(c)
    \/ \E c \in Chans : RegCb(c)

SpecReg == Init2 /\ [][NextReg]_vars

(***************************************************************************)
(* The name-keyed variant: resource drivers register descriptors by name   *)
(* in one global res_table, a request names its resource.  The registry    *)
(* functions follow both sources; the channel functions are those of       *)
(* rpmsg_resmgr.c, one action each.  rprm_resource_register is taken       *)
(* statement by statement, a section under table_lock being one step.      *)
(* Every descriptor has its request and release operation.                 *)
(***************************************************************************)
RECURSIVE __find_res_by_name(_, _)
__find_res_by_name(table, name) ==
    IF table = <<>> THEN NULL
    ELSE IF res_name(Head(table)) = name THEN Head(table)
    ELSE __find_res_by_name(Tail(table), name)

\* res->next is linked into res_table
res_linked(table, d) == \E i \in DOMAIN table : table[i] = d

\* rprm_resource_request(rprm, name, ...) on the connection s
flat_resource_request(s, table, name, env, nh) ==
    LET res == __find_res_by_name(table, name)
        fail(ret, calls, n) ==
            [ret |-> ret, res_id |-> NULL, id_list |-> s.id_list,
             res_list |-> s.res_list, calls |-> calls, nh |-> n]
        handle == nh + 1
        req_ok == DrvCall("request", res, handle, 0)
        undo   == DrvCall("release", res, handle, env.rel)
    IN
    IF res = NULL THEN fail(-ENOENT, <<>>, nh)
    ELSE IF ~env.kz THEN fail(-ENOMEM, <<>>, nh)
    ELSE IF env.req # 0
         THEN fail(env.req, <<DrvCall("request", res, 0, env.req)>>, nh)
    ELSE IF ~env.pre THEN fail(-ENOMEM, <<req_ok, undo>>, handle)
    ELSE IF env.get # 0 THEN fail(env.get, <<req_ok, undo>>, handle)
    ELSE LET id == idr_get_new(s.id_list)
             e  == [id |-> id, res |-> res, handle |-> handle]
         IN [ret |-> 0, res_id |-> id,
             id_list |-> idr_insert(s.id_list, id, e),
             res_list |-> list_add(e, s.res_list),
             calls |-> <<req_ok>>, nh |-> handle]

\* rprm_resource_release(rprm, res_id); r is the return of res->release
flat_resource_release(s, res_id, r) ==
    LET e == idr_find(s.id_list, res_id) IN
    IF e = NULL_ELEM
    THEN [ret |-> -ENOENT, id_list |-> s.id_list, res_list |-> s.res_list,
          calls |-> <<>>]
    ELSE LET rr == _resource_release(s.res_list, e, r) IN
         [ret |-> rr.ret,
          id_list |-> IF rr.ret # 0 THEN s.id_list
                      ELSE idr_remove(s.id_list, res_id),
          res_list |-> rr.res_list, calls |-> rr.calls]

\* rprm_resource_unregister, the list_for_each_entry_safe loop over the
\* res_list of one channel: the elements of type d.  After a successful
\* _resource_release the element is freed, and idr_remove(.., e->id) reads
\* the id from freed memory: it is still there, or, where the allocator
\* poisons freed objects, it is the poison pattern, an id no table holds
RECURSIVE unregister_elems(_, _, _, _, _)
unregister_elems(s, todo, d, rets, poison) ==
    IF todo = <<>>
    THEN [id_list |-> s.id_list, res_list |-> s.res_list, calls |-> <<>>]
    ELSE LET e == Head(todo) IN
         IF e.res # d THEN unregister_elems(s, Tail(todo), d, rets, poison)
         ELSE LET rr   == _resource_release(s.res_list, e, rets[e.handle])
                  id   == IF rr.ret = 0 /\ poison THEN NULL ELSE e.id
                  s1   == [id_list |-> idr_remove(s.id_list, id),
                           res_list |-> rr.res_list]
                  rest == unregister_elems(s1, Tail(todo), d, rets, poison)
              IN [rest EXCEPT !.calls = rr.calls \o @]

\* rprm_resource_unregister, the loop over ch_table with list_del(&res->next)
\* at the end of every round.  list_del of a node that is not linked (its
\* pointers are NULL or the list poison) faults, or, where the list debug
\* code finds the poison, warns and leaves the list alone: skip.
RECURSIVE unregister_chans(_, _, _, _, _, _, _)
unregister_chans(ss, table, chs, d, rets, skip, poison) ==
    IF chs = <<>>
    THEN [rprm |-> ss, table |-> table, calls |-> <<>>, dead |-> FALSE]
    ELSE LET c   == Head(chs)
             r   == unregister_elems(Tables(ss[c]), ss[c].res_list, d, rets,
                                     poison)
             ss1 == [ss EXCEPT ![c].id_list = r.id_list,
                               ![c].res_list = r.res_list]
         IN IF ~res_linked(table, d) /\ ~skip
            THEN [rprm |-> ss1, table |-> table, calls |-> r.calls,
                  dead |-> TRUE]
            ELSE LET rest == unregister_chans(ss1, list_del(d, table),
                                              Tail(chs), d, rets, skip,
                                              poison)
                 IN [rest EXCEPT !.calls = r.calls \o @]

\* rprm_resource_unregister(res) with res = d
flat_resource_unregister(v, ss, table, chs, d, rets, skip, poison) ==
    IF d = NULL
    THEN [ret |-> -EINVAL, rprm |-> ss, table |-> table, calls |-> <<>>,
          lock |-> 0]
    ELSE IF v = "ch_table"
    THEN LET lp == unregister_chans(ss, table, chs, d, rets, skip, poison) IN
         [ret |-> IF lp.dead THEN NoRet ELSE 0, rprm |-> lp.rprm,
          table |-> lp.table, calls |-> lp.calls,
          lock |-> IF lp.dead THEN DEAD ELSE 0]
    ELSE IF ~res_linked(table, d) /\ ~skip
    THEN [ret |-> NoRet, rprm |-> ss, table |-> table, calls |-> <<>>,
          lock |-> DEAD]
    ELSE [ret |-> 0, rprm |-> ss, table |-> list_del(d, table),
          calls |-> <<>>, lock |-> 0]

\* either source of the registry
InitFlat2 ==
    /\ mgr_table = <<>>
    /\ refcnt = [n \in MgrNames |-> 0]
    /\ rprm = [c \in Chans2 |-> NoRprm]
    /\ nhandle = 0
    /\ last = Last("init", 0, NoName, NoMsg, Tables(NoRprm), 0, <<>>, <<>>)
    /\ InitSteps
    /\ InitReg
    /\ variant \in FlatVariants
    /\ res_table = <<>>
    /\ ch_table = <<>>
    /\ res_lock = 0
    /\ rpc = [d \in FDescs |-> RegIdle]
    /\ flast = NoFLast
    /\ omap = NoOmap
    /\ oproc = NoOproc

\* the frame of every function of the name-keyed variant
FlatFrame == UNCHANGED <<hw, mgr_table, refcnt, last, steps, reg, variant>>

\* rprm_resource_register returns ret
FRegReturn(d, ret) ==
    /\ rpc' = [rpc EXCEPT ![d] = RegIdle]
    /\ flast' = FLast("register", d, ret, <<>>)

\* rprm_resource_register(NULL)
FRegNull ==
    /\ flast' = FLast("register", NULL, -EINVAL, <<>>)
    /\ UNCHANGED <<rprm, nhandle, res_table, ch_table, res_lock, rpc>>
    /\ FlatFrame

\* rprm_resource_register(res) is called; with ch_table it takes table_lock
\* for writing
FRegCall(d) ==
    /\ rpc[d].at = "idle"
    /\ variant = "ch_table" => res_lock = 0
    /\ res_lock' = IF variant = "ch_table" THEN d ELSE res_lock
    /\ rpc' = [rpc EXCEPT ![d] = [at |-> "find", ret |-> NoRet]]
    /\ flast' = NoFLast
    /\ UNCHANGED <<rprm, nhandle, res_table, ch_table>>
    /\ FlatFrame

\* __find_res_by_name(res->name); without ch_table it runs under the
\* spinlock and -EEXIST returns at once
FRegFind(d) ==
    /\ rpc[d].at = "find"
    /\ variant = "spinlock" => res_lock = 0
    /\ IF __find_res_by_name(res_table, res_name(d)) = NULL
       THEN /\ rpc' = [rpc EXCEPT ![d].at = "add"]
            /\ flast' = NoFLast
       ELSE IF variant = "ch_table"
       THEN /\ rpc' = [rpc EXCEPT ![d] = [at |-> "unlock", ret |-> -EEXIST]]
            /\ flast' = NoFLast
       ELSE FRegReturn(d, -EEXIST)
    /\ UNCHANGED <<rprm, nhandle, res_table, ch_table, res_lock>>
    /\ FlatFrame

\* list_add_tail(&res->next, &res_table)
FRegAdd(d) ==
    /\ rpc[d].at = "add"
    /\ variant = "spinlock" => res_lock = 0
    /\ res_table' = Append(res_table, d)
    /\ IF variant = "ch_table"
       THEN /\ rpc' = [rpc EXCEPT ![d] = [at |-> "unlock", ret |-> 0]]
            /\ flast' = NoFLast
       ELSE FRegReturn(d, 0)
    /\ UNCHANGED <<rprm, nhandle, ch_table, res_lock>>
    /\ FlatFrame

\* up_write(&table_lock) and return
FRegUnlock(d) ==
    /\ rpc[d].at = "unlock"
    /\ res_lock' = 0
    /\ FRegReturn(d, rpc[d].ret)
    /\ UNCHANGED <<rprm, nhandle, res_table, ch_table>>
    /\ FlatFrame

\* rprm_resource_unregister(res) with res = d
FUnregister(d, rets, skip, poison) ==
    /\ res_lock = 0
    /\ LET r == flat_resource_unregister(variant, rprm, res_table, ch_table,
                                         d, rets, skip, poison) IN
       /\ rprm' = r.rprm
       /\ res_table' = r.table
       /\ res_lock' = r.lock
       /\ flast' = FLast("unregister", d, r.ret, r.calls)
    /\ UNCHANGED <<nhandle, ch_table, rpc>>
    /\ FlatFrame

\* rprm_probe of channel c; km: kmalloc succeeds
FProbe(c, km) ==
    /\ ~rprm[c].live
    /\ variant = "ch_table" /\ km => res_lock = 0
    /\ rprm' = [rprm EXCEPT ![c] = IF km THEN [NoRprm EXCEPT !.live = TRUE]
                                     ELSE @]
    /\ ch_table' = IF variant = "ch_table" /\ km THEN <<c>> \o ch_table
                   ELSE ch_table
    /\ flast' = NoFLast
    /\ UNCHANGED <<nhandle, res_table, res_lock, rpc>>
    /\ FlatFrame

\* rprm_cb of channel c with a request for name from the connected endpoint
FRequest(c, name, env) ==
    /\ rprm[c].live
    /\ res_lock = 0
    /\ LET r == flat_resource_request(rprm[c], res_table, name, env, nhandle)
       IN /\ rprm' = [rprm EXCEPT ![c].id_list = r.id_list,
                                  ![c].res_list = r.res_list]
          /\ nhandle' = r.nh
          /\ flast' = NoFLast
    /\ UNCHANGED <<res_table, ch_table, res_lock, rpc>>
    /\ FlatFrame

\* rprm_cb of channel c with a release of res_id from the connected endpoint
FRelease(c, res_id, r) ==
    /\ rprm[c].live
    /\ res_lock = 0
    /\ LET rr == flat_resource_release(rprm[c], res_id, r) IN
       /\ rprm' = [rprm EXCEPT ![c].id_list = rr.id_list,
                               ![c].res_list = rr.res_list]
       /\ flast' = NoFLast
    /\ UNCHANGED <<nhandle, res_table, ch_table, res_lock, rpc>>
    /\ FlatFrame

\* rprm_remove of channel c: struct rprm is freed, and with it the list of
\* the elements whose release failed
FRemove(c) ==
    /\ rprm[c].live
    /\ res_lock = 0
    /\ rprm' = [rprm EXCEPT ![c] = NoRprm]
    /\ flast' = NoFLast
    /\ ch_table' = list_del(c, ch_table)
    /\ UNCHANGED <<nhandle, res_table, res_lock, rpc>>
    /\ FlatFrame

\* what res->release returns for every handle handed out: it fails for at
\* most one of them
FRelRets ==
    {[h \in 1..nhandle |-> IF h = f THEN -EBUSY ELSE 0] : f \in 0..nhandle}

\* the descriptors registered while the channels are at work
FDescsQuiet == {1, 3}

\* no driver is inside rprm_resource_register
FRegQuiet == \A d \in FDescs : rpc[d].at = "idle"

\* rpmsg_resmgr.c with its channels at work; drivers register one at a time
NextFlat ==
    \/ FRegQuiet /\ FRegNull
    \/ \E d \in FDescsQuiet : FRegQuiet /\ FRegCall(d)
    \/ \E d \in FDescs : FRegFind(d)
    \/ \E d \in FDescs : FRegAdd(d)
    \/ \E d \in FDescs : FRegUnlock(d)
    \/ \E d \in FDescs \cup {NULL}, rets \in FRelRets,
          skip, poison \in BOOLEAN :
          FRegQuiet /\ FUnregister(d, rets, skip, poison)
    \/ \E c \in Chans2, km \in BOOLEAN : FRegQuiet /\ FProbe(c, km)
    \/ \E c \in Chans2, d \in FDescs,
          env \in {NoEnv, [NoEnv EXCEPT !.kz = FALSE]} :
          /\ FRegQuiet
          /\ nhandle < MaxHandles
          /\ FRequest(c, res_name(d), env)
    \/ \E c \in Chans2, id \in 0..(MaxHandles - 1), r \in {0, -EBUSY} :
          FRegQuiet /\ FRelease(c, id, r)
    \/ \E c \in Chans2 : FRegQuiet /\ FRemove(c)

SpecFlat == Init2 /\ [][NextFlat]_vars

\* the drivers register and unregister concurrently, one channel connects
NextFlatReg ==
    \/ \E d \in FDescs : FRegCall(d)
    \/ \E d \in FDescs : FRegFind(d)
    \/ \E d \in FDescs : FRegAdd(d)
    \/ \E d \in FDescs : FRegUnlock(d)
    \/ \E d \in FDescs, rets \in FRelRets, skip, poison \in BOOLEAN :
          FUnregister(d, rets, skip, poison)
    \/ \E c \in Chans, km \in BOOLEAN : FProbe(c, km)

SpecFlatReg == InitFlat2 /\ [][NextFlatReg]_vars

(***************************************************************************)
(* The OMAP resource drivers of rprm-ducati behind rprm_resource_request   *)
(* and rprm_resource_release: what they reserve of the hardware.  A depot  *)
(* is what a driver keeps behind the handle it returns.  Two channels are  *)
(* connected; requests come from the connected endpoint and are well       *)
(* formed up to their parameter block.                                     *)
(***************************************************************************)
\* the parameter blocks: idx the resource, len_ok: the block has the size of
\* the driver's argument struct, id: the timer or clock asked for, n: the
\* parent clock id (omap-auxclk) or the number of channels (omap-sdma)
OmapArgs ==
    {[idx |-> 0, len_ok |-> TRUE, id |-> i, n |-> 0] : i \in {3, 4, 5}}
    \cup
    {[idx |-> 1, len_ok |-> TRUE, id |-> i, n |-> p] :
        i \in {0, 4}, p \in {0, 3}}
    \cup
    {[idx |-> SdmaIdx, len_ok |-> TRUE, id |-> 0, n |-> k] : k \in 0..3}
    \cup
    {[idx |-> i, len_ok |-> FALSE, id |-> 3, n |-> 1] : i \in 0..SdmaIdx}

\* the most channels one omap-sdma request may ask for
MAX_NUM_SDMA_CHANNELS == 2

\* omap_dm_timer_request_specific(n): the timer, or NULL when it is reserved
omap_dm_timer_request_specific(gpt, n) == IF n \in gpt THEN NULL ELSE n

\* clk_get(dev, name): a reference to the clock, whoever else holds one
clk_get(k) == k

\* omap_request_dma hands out the lowest of these channels, the ones not
\* allocated, and fails when there is none
omap_request_dma(dma) == DmaChs \ dma

\* rprm_gptimer_request that does not look the id up in the platform data
rprm_gptimer_request_anyid(h, a, km, ok) ==
    LET fail(r) == [ret |-> r, hw |-> h, units |-> {}] IN
    IF ~a.len_ok THEN fail(-EINVAL)
    ELSE IF ~km THEN fail(-ENOMEM)
    ELSE IF omap_dm_timer_request_specific(h.gpt, a.id) = NULL
    THEN fail(-EBUSY)
    ELSE IF ~ok THEN fail(-EINVAL)
    ELSE [ret |-> 0, hw |-> [h EXCEPT !.gpt = @ \cup {a.id}],
          units |-> {a.id}]

\* rprm_gptimer_request; km: kmalloc succeeds, ok: omap_dm_timer_set_source
\* accepts the source
rprm_gptimer_request(h, a, km, ok) ==
    LET fail(r) == [ret |-> r, hw |-> h, units |-> {}] IN
    IF ~a.len_ok THEN fail(-EINVAL)
    ELSE IF a.id \notin omap4_ducati_gpts THEN fail(-EINVAL)
    ELSE IF ~km THEN fail(-ENOMEM)
    ELSE IF omap_dm_timer_request_specific(h.gpt, a.id) = NULL
    THEN fail(-EBUSY)
    ELSE IF ~ok THEN fail(-EINVAL)
    ELSE [ret |-> 0, hw |-> [h EXCEPT !.gpt = @ \cup {a.id}],
          units |-> {a.id}]

\* rprm_auxclk_request; ok: the clock calls after kmalloc succeed
rprm_auxclk_request(h, a, km, ok) ==
    LET fail(r) == [ret |-> r, hw |-> h, units |-> {}] IN
    IF ~a.len_ok THEN fail(-EINVAL)
    ELSE IF a.id \notin omap4_auxclks THEN fail(-EINVAL)
    ELSE IF a.n >= 3 THEN fail(-ENOENT)
    ELSE IF ~km THEN fail(-ENOMEM)
    ELSE IF clk_get(a.id) = NULL \/ ~ok THEN fail(-EIO)
    ELSE [ret |-> 0, hw |-> [h EXCEPT !.clk[a.id] = @ + 1],
          units |-> {a.id}]

\* omap_free_dma(ch)
omap_free_dma(dma, ch) == dma \ {ch}

\* one call of the DMA allocator: request (ch: the channel handed out, NULL
\* when it failed) or free
DmaCall(op, ch) == [op |-> op, ch |-> ch]

\* while (i--) omap_free_dma(channels[i]), with i = Len(chs) at the start
RECURSIVE sdma_free_loop(_, _)
sdma_free_loop(dma, chs) ==
    IF chs = <<>> THEN [dma |-> dma, trace |-> <<>>]
    ELSE LET ch   == chs[Len(chs)]
             rest == sdma_free_loop(omap_free_dma(dma, ch),
                                    SubSeq(chs, 1, Len(chs) - 1))
         IN [rest EXCEPT !.trace = <<DmaCall("free", ch)>> \o @]

\* the for loop of rprm_sdma_request from i = Len(chs) on: chs are
\* sdma->channels[0..i-1]; omap_request_dma fails when no channel is free
\* and at the call number failat
RECURSIVE sdma_request_loop(_, _, _, _)
sdma_request_loop(dma, chs, n, failat) ==
    IF Len(chs) >= n
    THEN [ret |-> 0, dma |-> dma, chs |-> chs, trace |-> <<>>]
    ELSE LET free == omap_request_dma(dma) IN
         IF free = {} \/ Len(chs) = failat
         THEN LET err == sdma_free_loop(dma, chs) IN
              [ret |-> -EBUSY, dma |-> err.dma, chs |-> <<>>,
               trace |-> <<DmaCall("request", NULL)>> \o err.trace]
         ELSE LET ch   == CHOOSE x \in free : \A y \in free : x <= y
                  rest == sdma_request_loop(dma \cup {ch}, Append(chs, ch),
                                            n, failat)
              IN [rest EXCEPT !.trace = <<DmaCall("request", ch)>> \o @]

\* rprm_sdma_request that leaves the channels it got allocated when a later
\* one fails
rprm_sdma_request_chs_leak(h, a, km, ok) ==
    LET fail(r) == [ret |-> r, hw |-> h, units |-> {}, trace |-> <<>>]
        r == sdma_request_loop(h.dma, <<>>, a.n, IF ok THEN NULL ELSE a.n - 1)
    IN
    IF ~a.len_ok THEN fail(-EINVAL)
    ELSE IF a.n > MAX_NUM_SDMA_CHANNELS THEN fail(-EINVAL)
    ELSE IF ~km THEN fail(-ENOMEM)
    ELSE [ret |-> r.ret,
          hw |-> [h EXCEPT !.dma = r.dma \cup
                      ({r.trace[k].ch : k \in DOMAIN r.trace} \ {NULL})],
          units |-> {r.chs[k] : k \in DOMAIN r.chs},
          trace |-> SelectSeq(r.trace, LAMBDA x : x.op = "request")]

\* rprm_sdma_request, what it does to the DMA channels; km: kmalloc of the
\* depot succeeds, ok: no omap_request_dma fails while channels are free
\* (when not ok, the last call fails)
rprm_sdma_request_chs(h, a, km, ok) ==
    LET fail(r) == [ret |-> r, hw |-> h, units |-> {}, trace |-> <<>>]
        r == sdma_request_loop(h.dma, <<>>, a.n, IF ok THEN NULL ELSE a.n - 1)
    IN
    IF ~a.len_ok THEN fail(-EINVAL)
    ELSE IF a.n > MAX_NUM_SDMA_CHANNELS THEN fail(-EINVAL)
    ELSE IF ~km THEN fail(-ENOMEM)
    ELSE [ret |-> r.ret, hw |-> [h EXCEPT !.dma = r.dma],
          units |-> {r.chs[k] : k \in DOMAIN r.chs}, trace |-> r.trace]

\* sd->channels of a depot: omap_request_dma hands the channels out in
\* ascending order
depot_channels(d) ==
    CHOOSE q \in [1..Cardinality(d.units) -> d.units] :
        \A i, j \in DOMAIN q : i < j => q[i] < q[j]

\* rprm_sdma_release for the depots ds, one after the other
RECURSIVE rprm_sdma_release(_, _)
rprm_sdma_release(dma, ds) ==
    IF ds = {} THEN [dma |-> dma, trace |-> <<>>]
    ELSE LET d    == CHOOSE x \in ds : \A y \in ds : x.handle <= y.handle
             one  == sdma_free_loop(dma, depot_channels(d))
             rest == rprm_sdma_release(one.dma, ds \ {d})
         IN [rest EXCEPT !.trace = one.trace \o @]

\* rprm_gptimer_release, rprm_auxclk_release and rprm_sdma_release for the
\* depots behind the handles hs
omap_release(h, hs) ==
    LET ds == {d \in h.depot : d.handle \in hs}
        units(idx) == UNION {d.units : d \in {x \in ds : x.idx = idx}}
    IN [h EXCEPT
          !.gpt = @ \ units(0),
          !.clk = [k \in omap4_auxclks |->
                      @[k] - Cardinality({d \in ds : d.idx = 1 /\ k \in d.units})],
          !.dma = rprm_sdma_release(@, {d \in ds : d.idx = SdmaIdx}).dma,
          !.depot = @ \ ds,
          !.req = [NoOmap.req EXCEPT
                      !.trace = rprm_sdma_release(
                                    h.dma, {d \in ds : d.idx = SdmaIdx}).trace]]

InitOmap ==
    /\ mgr_table = <<"rprm-ducati">>
    /\ refcnt = [n \in MgrNames |-> Cardinality(Chans2)]
    /\ rprm = [c \in Chans2 |-> ActiveRprm]
    /\ nhandle = 0
    /\ last = Last("init", 0, NoName, NoMsg, Tables(NoRprm), 0, <<>>, <<>>)
    /\ InitSteps
    /\ InitReg
    /\ InitFlat
    /\ omap = NoOmap
    /\ oproc = NoOproc

\* rprm_cb of channel c with a request for resource a.idx; kz: kzalloc of the
\* element succeeds; the idr does not fail
OmapRequest(c, a, kz, km, ok) ==
    /\ rprm[c].live
    /\ nhandle < MaxHandles
    /\ LET d == IF a.idx = 0 THEN rprm_gptimer_request(omap, a, km, ok)
                ELSE IF a.idx = 1 THEN rprm_auxclk_request(omap, a, km, ok)
                ELSE rprm_sdma_request_chs(omap, a, km, ok)
           env == [NoEnv EXCEPT !.kz = kz, !.req = d.ret]
           r == rprm_resource_request(rprm[c], a.idx, env, nhandle)
           depot == [handle |-> r.nh, idx |-> a.idx, units |-> d.units]
       IN /\ rprm' = [rprm EXCEPT ![c].id_list = r.id_list,
                                  ![c].res_list = r.res_list]
          /\ nhandle' = r.nh
          /\ omap' = [(IF kz THEN d.hw ELSE omap) EXCEPT
                         !.depot = IF r.ret = 0 THEN @ \cup {depot} ELSE @,
                         !.req = [chan |-> c, args |-> a,
                                  drv |-> IF kz THEN d.ret ELSE NoRet,
                                  ret |-> r.ret,
                                  trace |-> IF kz /\ a.idx = SdmaIdx
                                            THEN d.trace ELSE <<>>]]
    /\ UNCHANGED <<oproc, flat, reg, steps, mgr_table, refcnt, last>>

\* rprm_cb of channel c with a release of res_id; the drivers' release
\* functions return 0
OmapRelease(c, res_id) ==
    /\ rprm[c].live
    /\ LET e == idr_find(rprm[c].id_list, res_id)
           r == rprm_resource_release(rprm[c], res_id, 0)
       IN /\ rprm' = [rprm EXCEPT ![c].id_list = r.id_list,
                                  ![c].res_list = r.res_list]
          /\ omap' = omap_release(omap, IF e = NULL_ELEM THEN {}
                                        ELSE {e.handle})
    /\ UNCHANGED <<oproc, flat, reg, steps, mgr_table, refcnt, nhandle, last>>

\* rprm_remove of channel c
OmapRemove(c) ==
    /\ rprm[c].live
    /\ LET n == Len(rprm[c].res_list)
           r == rprm_remove(rprm[c], [i \in 1..n |-> 0])
       IN /\ rprm' = [rprm EXCEPT ![c].live = FALSE,
                                  ![c].id_list = r.id_list,
                                  ![c].res_list = r.res_list]
          /\ omap' = omap_release(omap, {rprm[c].res_list[i].handle :
                                            i \in 1..n})
    /\ refcnt' = [refcnt EXCEPT ![rprm[c].mgr] = @ - 1]
    /\ UNCHANGED <<oproc, flat, reg, steps, mgr_table, nhandle, last>>

NextOmap ==
    \/ \E c \in Chans2, a \in OmapArgs, fail \in 0..3 :
          OmapRequest(c, a, fail # 1, fail # 2, fail # 3)
    \/ \E c \in Chans2, id \in 0..(MaxHandles - 1) : OmapRelease(c, id)
    \/ \E c \in Chans2 : OmapRemove(c)

SpecOmap == InitOmap /\ [][NextOmap]_vars

(***************************************************************************)
(* The ack buffer of rprm_cb: char ack_msg[MAX_MSG] on the stack. Requests *)
(* with parameter blocks of every length up to MaxLongData for the first   *)
(* descriptor, with a driver that takes the block as it is or refuses it.  *)
(***************************************************************************)
MAX_RES_SIZE == 128
MAX_MSG == SizeofMsg + SizeofRequest + MAX_RES_SIZE

\* the bytes rprm_cb wrote into ack_msg for the ack a: the two headers and
\* the memcpy of the parameter block when there is a payload, the ack header
\* when there is none
ack_bytes(a) == a.len

\* the parameter blocks are zero bytes: their length is what matters here
LongMsgs(c) ==
    {Msg(SizeofMsg + SizeofRequest + n, RPRM_REQUEST, 0, [i \in 1..n |-> 0],
         rpdev_dst(c)) : n \in 0..MaxLongData}

\* a write past the end of ack_msg is undefined behaviour: what the handler
\* and the kernel do after it is not followed
AckBufIntact ==
    last.op = "cb" => \A i \in DOMAIN last.sent :
                          ack_bytes(last.sent[i]) <= MAX_MSG

LongRequest(c) ==
    /\ AckBufIntact
    /\ \E m \in LongMsgs(c) :
           \/ nhandle < MaxHandles /\ Cb(c, m, NoEnv, 0)
           \/ Cb(c, m, [NoEnv EXCEPT !.req = -EINVAL], 0)

LongRelease(c) ==
    /\ AckBufIntact
    /\ \E i \in idr_ids(rprm[c].id_list) :
           Cb(c, Msg(SizeofMsg + SizeofRelease, RPRM_RELEASE, i, <<>>,
                     rpdev_dst(c)), NoEnv, 0)

NextLong == \E c \in Chans : LongRequest(c) \/ LongRelease(c)

SpecLong == InitActive /\ [][NextLong]_vars

(***************************************************************************)
(* SpecPm: the OMAP remote processor driver, statement by statement:       *)
(* omap_rproc_kick from the virtqueues' contexts, omap_rproc_suspend and   *)
(* omap_rproc_resume from the power-management thread, and the mailbox     *)
(* callback with the remote processor's answers.                           *)
(***************************************************************************)
PmRest == <<omap, flat, reg, steps, mgr_table, refcnt, rprm, nhandle, last>>

InitPm ==
    /\ mgr_table = <<>>
    /\ refcnt = [n \in MgrNames |-> 0]
    /\ rprm = [c \in Chans |-> NoRprm]
    /\ nhandle = 0
    /\ last = Last("init", 0, NoName, NoMsg, Tables(NoRprm), 0, <<>>, <<>>)
    /\ InitSteps
    /\ InitReg
    /\ InitFlat
    /\ omap = NoOmap
    /\ oproc \in {[NoOproc EXCEPT !.has_idle = b] : b \in BOOLEAN}

\* _rproc_idled
_rproc_idled(o) == ~o.has_idle \/ o.idled

\* omap_mbox_msg_send(oproc->mbox, vqid)
omap_mbox_msg_send(o, vqid) ==
    [o EXCEPT !.mbox = @ \cup {vqid}, !.defer = @ \ {vqid}]

\* omap_rproc_kick, run without another context in between
omap_rproc_kick(o, vqid) ==
    IF o.suspended THEN [o EXCEPT !.need_kick = TRUE]
    ELSE omap_mbox_msg_send(o, vqid)

\* a suspend or resume returns ret
PmReturn(o, op, ret) ==
    [o EXCEPT !.ppc = "idle", !.pm = [op |-> op, ret |-> ret]]

\* omap_rproc_kick of vring v: if (oproc->suspended)
KickRead(v) ==
    /\ oproc.kpc[v] = "idle"
    /\ oproc' = IF oproc.suspended
                THEN [oproc EXCEPT !.kpc[v] = "set", !.defer = @ \cup {v}]
                ELSE [oproc EXCEPT !.kpc[v] = "send"]
    /\ UNCHANGED PmRest

\* omap_rproc_kick of vring v: oproc->need_kick = true
KickSet(v) ==
    /\ oproc.kpc[v] = "set"
    /\ oproc' = [oproc EXCEPT !.kpc[v] = "idle", !.need_kick = TRUE]
    /\ UNCHANGED PmRest

\* omap_rproc_kick of vring v: omap_mbox_msg_send
KickSend(v) ==
    /\ oproc.kpc[v] = "send"
    /\ oproc' = [omap_mbox_msg_send(oproc, v) EXCEPT !.kpc[v] = "idle"]
    /\ UNCHANGED PmRest

\* omap_rproc_resume up to oproc->suspended = false; ok: deassert_reset and
\* device_enable succeed.  The remote processor starts again, with no
\* suspend request left to answer
PmResume(ok) ==
    /\ oproc.ppc = "idle"
    /\ oproc.suspended
    /\ oproc' = IF ~ok THEN PmReturn(oproc, "resume", -EINVAL)
                ELSE [oproc EXCEPT !.on = TRUE, !.suspended = FALSE,
                                   !.reqno = 0, !.pending = {},
                                   !.replies = {}, !.ppc = "res_check"]
    /\ UNCHANGED PmRest

\* omap_rproc_resume: if (oproc->need_kick)
PmResumeCheck ==
    /\ oproc.ppc = "res_check"
    /\ oproc' = IF oproc.need_kick
                THEN [oproc EXCEPT !.ppc = "res_kick", !.i = 0]
                ELSE PmReturn(oproc, "resume", 0)
    /\ UNCHANGED PmRest

\* omap_rproc_resume: one _resume_kick of idr_for_each
PmResumeKick ==
    /\ oproc.ppc = "res_kick"
    /\ oproc.i \in Vqs
    /\ oproc' = [omap_rproc_kick(oproc, oproc.i) EXCEPT !.i = @ + 1]
    /\ UNCHANGED PmRest

\* omap_rproc_resume: oproc->need_kick = false; return 0
PmResumeClear ==
    /\ oproc.ppc = "res_kick"
    /\ oproc.i \notin Vqs
    /\ oproc' = PmReturn([oproc EXCEPT !.need_kick = FALSE], "resume", 0)
    /\ UNCHANGED PmRest

\* omap_rproc_suspend up to the call of _suspend
PmSuspend(auto_suspend) ==
    /\ oproc.ppc = "idle"
    /\ ~oproc.suspended
    /\ oproc.reqno < MaxReqs
    /\ oproc' = IF auto_suspend /\ ~_rproc_idled(oproc)
                THEN PmReturn(oproc, "suspend", -EBUSY)
                ELSE [oproc EXCEPT !.ppc = "sus_init", !.auto = auto_suspend]
    /\ UNCHANGED PmRest

\* _suspend: init_completion; oproc->suspend_acked = false
PmSuspendInit ==
    /\ oproc.ppc = "sus_init"
    /\ oproc' = [oproc EXCEPT !.done = 0, !.suspend_acked = FALSE,
                              !.ppc = "sus_send"]
    /\ UNCHANGED PmRest

\* _suspend: omap_mbox_msg_send of RP_MBOX_SUSPEND or RP_MBOX_SUSPEND_FORCED
PmSuspendSend ==
    /\ oproc.ppc = "sus_send"
    /\ oproc' = [oproc EXCEPT !.reqno = @ + 1,
                              !.pending = @ \cup {oproc.reqno + 1},
                              !.ppc = "sus_wait"]
    /\ UNCHANGED PmRest

\* _suspend: wait_for_completion_timeout returns, the completion being done
\* or the time being over
PmSuspendWait(timeout) ==
    /\ oproc.ppc = "sus_wait"
    /\ timeout <=> oproc.done = 0
    /\ oproc' = [oproc EXCEPT !.done = IF timeout THEN 0 ELSE @ - 1,
                              !.timedout = timeout, !.ppc = "sus_acked"]
    /\ UNCHANGED PmRest

\* _suspend: if (!oproc->suspend_acked) return -EBUSY
PmSuspendAcked ==
    /\ oproc.ppc = "sus_acked"
    /\ oproc' = IF ~oproc.suspend_acked
                THEN PmReturn(oproc, "suspend", -EBUSY)
                ELSE [oproc EXCEPT !.ppc = IF oproc.has_idle THEN "sus_idle"
                                           ELSE "sus_shutdown"]
    /\ UNCHANGED PmRest

\* _suspend: the loop that waits for the idle bit leaves; expired:
\* time_after(jiffies, ta)
PmSuspendIdle(expired) ==
    /\ oproc.ppc = "sus_idle"
    /\ expired <=> ~_rproc_idled(oproc)
    /\ oproc' = IF expired THEN PmReturn(oproc, "suspend", -ETIME)
                ELSE [oproc EXCEPT !.ppc = "sus_shutdown"]
    /\ UNCHANGED PmRest

\* _suspend: device_shutdown, assert_reset, oproc->suspended = true; sd, ar:
\* the two calls succeed
PmSuspendShutdown(sd, ar) ==
    /\ oproc.ppc = "sus_shutdown"
    /\ oproc' = IF ~sd THEN PmReturn(oproc, "suspend", -EINVAL)
                ELSE IF ~ar
                THEN PmReturn([oproc EXCEPT !.on = FALSE], "suspend", -EINVAL)
                ELSE PmReturn([oproc EXCEPT !.on = FALSE,
                                            !.suspended = TRUE], "suspend", 0)
    /\ UNCHANGED PmRest

\* omap_rproc_mbox_callback with RP_MBOX_SUSPEND_ACK (ack) or
\* RP_MBOX_SUSPEND_CANCEL: the remote processor answers the oldest suspend
\* request it has not answered
omap_rproc_mbox_callback(ack) ==
    /\ oproc.on
    /\ oproc.pending # {}
    /\ LET k == CHOOSE x \in oproc.pending : \A y \in oproc.pending : x <= y
       IN oproc' = [oproc EXCEPT !.pending = @ \ {k},
                                 !.replies = @ \cup {[req |-> k, ack |-> ack]},
                                 !.suspend_acked = ack,
                                 !.done = @ + 1]
    /\ UNCHANGED PmRest

\* the remote processor takes a vring index out of the mailbox
RemoteTakes(v) ==
    /\ oproc.on
    /\ v \in oproc.mbox
    /\ oproc' = [oproc EXCEPT !.mbox = @ \ {v}]
    /\ UNCHANGED PmRest

\* the remote processor goes idle or leaves idle
RemoteIdles ==
    /\ oproc.on
    /\ oproc.has_idle
    /\ oproc' = [oproc EXCEPT !.idled = ~@]
    /\ UNCHANGED PmRest

NextPm ==
    \/ \E v \in Vqs : KickRead(v)
    \/ \E v \in Vqs : KickSet(v)
    \/ \E v \in Vqs : KickSend(v)
    \/ \E ok \in BOOLEAN : PmResume(ok)
    \/ PmResumeCheck
    \/ PmResumeKick
    \/ PmResumeClear
    \/ \E auto_suspend \in BOOLEAN : PmSuspend(auto_suspend)
    \/ PmSuspendInit
    \/ PmSuspendSend
    \/ \E timeout \in BOOLEAN : PmSuspendWait(timeout)
    \/ PmSuspendAcked
    \/ \E expired \in BOOLEAN : PmSuspendIdle(expired)
    \/ \E sd, ar \in BOOLEAN : PmSuspendShutdown(sd, ar)
    \/ \E ack \in BOOLEAN : omap_rproc_mbox_callback(ack)
    \/ \E v \in Vqs : RemoteTakes(v)
    \/ RemoteIdles

SpecPm == InitPm /\ [][NextPm]_vars

(***************************************************************************)
(* Vocabulary of the properties.                                           *)
(***************************************************************************)
\* the last step was rprm_cb with a message that has the common header
LastIsMsg == last.op = "cb" /\ last.msg.len >= SizeofMsg

\* ... from the endpoint the channel is connected to
LastIsConnected == LastIsMsg /\ last.msg.src = rpdev_dst(last.chan)

\* the last step ran rprm_resource_request
LastIsRequest ==
    /\ LastIsConnected
    /\ last.msg.action = RPRM_REQUEST
    /\ last.msg.len >= SizeofMsg + SizeofRequest

\* the last step ran rprm_resource_release
LastIsRelease ==
    /\ LastIsConnected
    /\ last.msg.action = RPRM_RELEASE
    /\ last.msg.len >= SizeofMsg + SizeofRelease

\* the tables of the channel of the last step, as the step left them
Post == Tables(rprm[last.chan])

TablesUnchanged == Post = last.pre

\* the positions of the release of handle h among the driver calls cs
ReleasesOf(cs, h) ==
    {i \in 1..Len(cs) : cs[i].op = "release" /\ cs[i].handle = h}

\* the channels that have a connection to the manager `name`
LiveSessions(name) ==
    {c \in DOMAIN rprm : rprm[c].live /\ rprm[c].mgr = name}

\* an ack of the ack header only
HeaderOnly(a) == a.kind = "ack" /\ a.len = SizeofAck /\ a.data = <<>>

C2_TablesConsistent ==
    \A c \in Chans :
        rprm[c].live =>
            LET list == rprm[c].res_list IN
            /\ {p.ptr : p \in rprm[c].id_list} =
                  {list[i] : i \in 1..Len(list)}
            /\ Cardinality(rprm[c].id_list) = Len(list)

(***************************************************************************)
(* C3 as claimed: rprm_remove calls the driver's release once for every    *)
(* handle that was in the id table, first acquired first.                  *)
(***************************************************************************)
C3_AcquisitionOrder ==
    last.op = "remove" =>
        LET held == idr_handles(last.pre.id_list) IN
        /\ \A h \in held : Cardinality(ReleasesOf(last.calls, h)) = 1
        /\ \A h1, h2 \in held : h1 < h2 =>
              \A i \in ReleasesOf(last.calls, h1),
                 j \in ReleasesOf(last.calls, h2) : i < j

(***************************************************************************)
(* C3 amended: rprm_remove calls the driver's release once for every       *)
(* handle that was in the id table, last acquired first.                   *)
(***************************************************************************)
C3_ReverseOrder ==
    last.op = "remove" =>
        LET held == idr_handles(last.pre.id_list) IN
        /\ \A h \in held : Cardinality(ReleasesOf(last.calls, h)) = 1
        /\ \A h1, h2 \in held : h1 < h2 =>
              \A i \in ReleasesOf(last.calls, h1),
                 j \in ReleasesOf(last.calls, h2) : j < i

\* a connection with two live instances was torn down
C3_Witness ==
    /\ last.op = "remove"
    /\ Cardinality(idr_handles(last.pre.id_list)) >= 2

(***************************************************************************)
(* C4: a request accepted on empty tables, followed at once by the release *)
(* of the id it acknowledged, leaves the id table and the list empty.      *)
(***************************************************************************)
C4_RequestThenRelease ==
    [][(/\ LastIsRequest /\ last.ret = 0
        /\ last.pre = Tables(NoRprm)
        /\ last'.op = "cb" /\ last'.chan = last.chan
        /\ last'.msg.src = rpdev_dst(last.chan)
        /\ last'.msg.action = RPRM_RELEASE
        /\ last'.msg.len >= SizeofMsg + SizeofRelease
        /\ last'.msg.word = last.sent[1].res_id)
       => (/\ rprm'[last.chan].id_list = {}
           /\ rprm'[last.chan].res_list = <<>>)]_vars

(***************************************************************************)
(* C5: a release of an id that is not in the id table returns -ENOENT,     *)
(* calls no driver and leaves the id table and the list as they were; and  *)
(* the release that follows a release of the same id returns -ENOENT.      *)
(***************************************************************************)
C5_ReleaseUnknown ==
    /\ [](LastIsRelease /\ last.msg.word \notin idr_ids(last.pre.id_list)
            => /\ last.ret = -ENOENT
               /\ last.calls = <<>>
               /\ TablesUnchanged)
    /\ [][(/\ LastIsRelease
           /\ last'.op = "cb" /\ last'.chan = last.chan
           /\ last'.msg = last.msg)
          => last'.ret = -ENOENT]_vars

\* an unknown id was released on a connection that has a live instance
C5_Witness ==
    /\ LastIsRelease
    /\ last.msg.word \notin idr_ids(last.pre.id_list)
    /\ last.pre.id_list # {}

(***************************************************************************)
(* C6: a request whose index is not below the manager's res_cnt is         *)
(* acknowledged with -EINVAL, calls no driver and adds no entry to the id  *)
(* table or the list.                                                      *)
(***************************************************************************)
C6_IndexOutOfRange ==
    (LastIsRequest /\ last.msg.word >= res_cnt(last.name)) =>
        /\ last.ret = -EINVAL
        /\ Len(last.sent) = 1
        /\ last.sent[1].ret = -EINVAL
        /\ last.calls = <<>>
        /\ TablesUnchanged

\* an out-of-range index was requested
C6_Witness ==
    /\ LastIsRequest
    /\ last.msg.word >= res_cnt(last.name)
    /\ Len(last.sent) = 1

(***************************************************************************)
(* C7: when the driver's request returns an error, the ack carries that    *)
(* error as its status and the id table and the list are as they were.     *)
(***************************************************************************)
C7_DriverError ==
    \A i \in 1..Len(last.calls) :
        (/\ LastIsRequest
         /\ last.calls[i].op = "request"
         /\ last.calls[i].ret # 0)
        => /\ Len(last.sent) = 1
           /\ last.sent[1].ret = last.calls[i].ret
           /\ TablesUnchanged

\* the driver refused a request on a connection that has a live instance
C7_Witness ==
    /\ LastIsRequest
    /\ Len(last.calls) = 1
    /\ last.calls[1].op = "request"
    /\ last.calls[1].ret = -EBUSY
    /\ last.pre.id_list # {}

(***************************************************************************)
(* C8: a request message that has the common header but no room for the    *)
(* request header gets exactly one ack, with a negative status and no      *)
(* payload, and the id table and the list are as they were.                *)
(***************************************************************************)
C8_TruncatedRequest ==
    (/\ LastIsMsg
     /\ last.msg.action = RPRM_REQUEST
     /\ last.msg.len < SizeofMsg + SizeofRequest)
    => /\ Len(last.sent) = 1
       /\ last.sent[1].ret < 0
       /\ HeaderOnly(last.sent[1])
       /\ last.calls = <<>>
       /\ TablesUnchanged

\* a truncated request arrived from the connected endpoint
C8_Witness ==
    /\ LastIsConnected
    /\ last.msg.action = RPRM_REQUEST
    /\ last.msg.len < SizeofMsg + SizeofRequest
    /\ Len(last.sent) = 1

(***************************************************************************)
(* C9 as claimed: a message whose action is RELEASE makes the server send  *)
(* nothing, whatever its outcome and whatever its source address.          *)
(***************************************************************************)
C9_NoSendForRelease ==
    (LastIsMsg /\ last.msg.action = RPRM_RELEASE) => last.sent = <<>>

(***************************************************************************)
(* C9 amended: a RELEASE message from the endpoint the channel is          *)
(* connected to makes the server send nothing, whatever its outcome; a     *)
(* RELEASE message from another source address is answered with one ack    *)
(* of the ack header only, with status -ENOTCONN.                          *)
(***************************************************************************)
C9_NoSendForConnectedRelease ==
    (LastIsMsg /\ last.msg.action = RPRM_RELEASE) =>
        IF last.msg.src = rpdev_dst(last.chan)
        THEN last.sent = <<>>
        ELSE /\ Len(last.sent) = 1
             /\ HeaderOnly(last.sent[1])
             /\ last.sent[1].ret = -ENOTCONN
             /\ last.sent[1].dst = last.msg.src

\* the driver failed a release of a live instance and nothing was sent
C9_Witness ==
    /\ LastIsRelease
    /\ Len(last.calls) = 1
    /\ last.calls[1].ret # 0
    /\ last.sent = <<>>

(***************************************************************************)
(* C10: a message that has the common header and whose action is REQUEST   *)
(* gets exactly one ack, sent to its source by the handler that processes  *)
(* it; the ack is positive exactly when the request was registered.        *)
(***************************************************************************)
C10_OneAckPerRequest ==
    (LastIsMsg /\ last.msg.action = RPRM_REQUEST) =>
        /\ Len(last.sent) = 1
        /\ last.sent[1].kind = "ack"
        /\ last.sent[1].dst = last.msg.src
        /\ last.sent[1].action = RPRM_REQUEST
        /\ last.sent[1].ret = last.ret
        /\ (last.ret = 0 <=> Post # last.pre)

\* a request that failed in the driver was acknowledged
C10_Witness ==
    /\ LastIsRequest
    /\ last.ret < 0
    /\ last.calls # <<>>
    /\ Len(last.sent) = 1

(***************************************************************************)
(* C11 as claimed: the data of the ack of a successful request are the     *)
(* data bytes the request message carried, in the same number; the ack of  *)
(* a failed request carries no data.                                       *)
(***************************************************************************)
C11_EchoVerbatim ==
    (LastIsMsg /\ last.msg.action = RPRM_REQUEST /\ Len(last.sent) = 1) =>
        IF last.ret = 0
        THEN /\ last.sent[1].data = last.msg.data
             /\ last.sent[1].len = SizeofAck + SizeofRack + Len(last.msg.data)
        ELSE HeaderOnly(last.sent[1])

(***************************************************************************)
(* C11 amended: the data of the ack of a successful request are the        *)
(* request's parameter block as the resource driver left it: as many bytes *)
(* as the request carried, equal to them except in the channel fields of   *)
(* an omap-sdma request, where the driver stored the channels it           *)
(* allocated; the ack of a failed request carries no data.                 *)
(***************************************************************************)
C11_EchoAfterDriver ==
    (LastIsMsg /\ last.msg.action = RPRM_REQUEST /\ Len(last.sent) = 1) =>
        IF last.ret = 0
        THEN /\ Len(last.sent[1].data) = Len(last.msg.data)
             /\ last.sent[1].len = SizeofAck + SizeofRack + Len(last.msg.data)
             /\ \A i \in DOMAIN last.msg.data :
                   \/ last.sent[1].data[i] = last.msg.data[i]
                   \/ /\ last.msg.word = SdmaIdx
                      /\ i \in SdmaChannelFields(last.msg.data)
                      /\ last.sent[1].data[i] \in DmaChs
        ELSE HeaderOnly(last.sent[1])

\* an omap-sdma request for one channel was acknowledged with the channel
\* the driver allocated in place of the byte the client sent
C11_Witness ==
    /\ LastIsRequest /\ last.ret = 0
    /\ last.msg.word = SdmaIdx
    /\ Len(last.msg.data) >= 2
    /\ last.sent[1].data # last.msg.data
    /\ last.sent[1].data[1] = last.msg.data[1]

(***************************************************************************)
(* C12: after a release of a live id whose driver release failed, the      *)
(* instance is in neither the id table nor the list; and rprm_remove calls *)
(* the driver's release only for handles that are in the id table, so not  *)
(* a second time for the handle of such an instance.                       *)
(***************************************************************************)
C12_FailedReleaseGone ==
    /\ (/\ LastIsRelease
        /\ last.msg.word \in idr_ids(last.pre.id_list)
        /\ last.ret # 0)
       => LET e == idr_find(last.pre.id_list, last.msg.word) IN
          /\ last.msg.word \notin idr_ids(Post.id_list)
          /\ \A i \in 1..Len(Post.res_list) : Post.res_list[i] # e
    /\ last.op = "remove" =>
          \A i \in 1..Len(last.calls) :
              last.calls[i].handle \in idr_handles(last.pre.id_list)

(***************************************************************************)
(* C13: every step of rprm_resource_request, rprm_resource_release,        *)
(* _resource_release and rprm_remove that reads or writes the id table or  *)
(* the list of a connection is taken by a thread that holds the            *)
(* connection's mutex.                                                     *)
(***************************************************************************)
C13_TablesUnderMutex ==
    (/\ acc.obj \in {"id_list", "res_list"}
     /\ acc.fn \in {"rprm_resource_request", "rprm_resource_release",
                    "_resource_release", "rprm_remove"})
    => acc.held

(***************************************************************************)
(* C14: rprm_manager_unregister of a manager that has a live connection    *)
(* returns -EBUSY and leaves it registered; and a manager leaves the       *)
(* registry only in a step taken while it has no live connection.          *)
(***************************************************************************)
C14_UnregisterBusy ==
    /\ [](last.op = "unregister" =>
            /\ LiveSessions(last.name) # {} =>
                  /\ last.ret = -EBUSY
                  /\ __find_mgr_by_name(mgr_table, last.name)
            /\ last.ret = 0 =>
                  /\ LiveSessions(last.name) = {}
                  /\ ~__find_mgr_by_name(mgr_table, last.name))
    /\ [][\A name \in MgrNames :
            (/\ __find_mgr_by_name(mgr_table, name)
             /\ ~__find_mgr_by_name(mgr_table', name))
            => /\ LiveSessions(name) = {}
               /\ last'.op = "unregister" /\ last'.ret = 0]_vars

\* the unregistration was refused while two connections were live
C14_Witness ==
    /\ last.op = "unregister"
    /\ last.ret = -EBUSY
    /\ Cardinality(LiveSessions(last.name)) = 2

(***************************************************************************)
(* C15: whatever the interleaving of the register and unregister calls of  *)
(* the platform devices, the registry never holds a name twice; a register *)
(* call returns -EEXIST exactly when its lookup finds the name registered, *)
(* and no step of a call that returns -EEXIST changes the registry.        *)
(***************************************************************************)
C15_RegisterDuplicate ==
    /\ [](\A i, j \in 1..Len(mgr_table) :
             mgr_table[i] = mgr_table[j] => i = j)
    /\ [][\A d \in Devs :
            /\ (DevAt(d, "reg_find") /\ dpc'[d] # dpc[d]) =>
                  /\ __find_mgr_by_name(mgr_table, mgr_name(d))
                        <=> dpc'[d].ret = -EEXIST
                  /\ dpc'[d].ret \in {0, -EEXIST}
            /\ (dpc'[d] # dpc[d] /\ dpc'[d].ret = -EEXIST) =>
                  /\ mgr_table' = mgr_table
                  /\ ~dpc'[d].reg]_vars

\* a device was refused with -EEXIST while the other device, which holds
\* the name, is inside rprm_manager_unregister waiting for the lock
C15_Witness ==
    \E d, o \in Devs :
        /\ d # o
        /\ dpc[d].ret = -EEXIST /\ DevAt(d, "reg_unlock")
        /\ DevAt(o, "unreg_lock")
        /\ __find_mgr_by_name(mgr_table, mgr_name(d))

(***************************************************************************)
(* C16: a probe of a channel whose name no registered manager has sends    *)
(* one connect ack with status -ENOENT and returns -ENOENT; it creates no  *)
(* connection and leaves the reference count of every manager as it was.   *)
(***************************************************************************)
C16_ProbeNoManager ==
    /\ [](last.op = "probe" /\ ~__find_mgr_by_name(mgr_table, last.name) =>
            /\ last.ret = -ENOENT
            /\ Len(last.sent) = 1
            /\ last.sent[1].kind = "connect"
            /\ last.sent[1].ret = -ENOENT
            /\ last.sent[1].dst = rpdev_dst(last.chan)
            /\ ~rprm[last.chan].live)
    /\ [][(last'.op = "probe" /\ last' # last
           /\ ~__find_mgr_by_name(mgr_table', last'.name))
          => /\ refcnt' = refcnt
             /\ \A c \in DOMAIN rprm : rprm'[c].live = rprm[c].live]_vars

\* a channel was probed while no manager has its name
C16_Witness ==
    /\ last.op = "probe"
    /\ ~__find_mgr_by_name(mgr_table, last.name)
    /\ last.ret = -ENOENT
    /\ last.sent[1].ret = -ENOENT

(***************************************************************************)
(* C17: every probe sends exactly one connect ack, to the endpoint of its  *)
(* channel, and the status of the ack is 0 exactly when the probe left a   *)
(* live connection; a connection that became live has empty tables, is     *)
(* bound to a registered manager, and its probe took one reference on the  *)
(* manager's owner.                                                        *)
(***************************************************************************)
C17_OneConnectAck ==
    /\ [](last.op = "probe" =>
            /\ Len(last.sent) = 1
            /\ last.sent[1].kind = "connect"
            /\ last.sent[1].dst = rpdev_dst(last.chan)
            /\ last.sent[1].ret = last.ret
            /\ last.sent[1].ret = 0 <=> rprm[last.chan].live
            /\ rprm[last.chan].live =>
                  /\ Tables(rprm[last.chan]) = Tables(NoRprm)
                  /\ rprm[last.chan].mgr = last.name
                  /\ __find_mgr_by_name(mgr_table, last.name)
                  /\ refcnt[last.name] >= 1)
    /\ [][\A c \in DOMAIN rprm :
            (~rprm[c].live /\ rprm'[c].live) =>
                /\ last'.op = "probe" /\ last'.chan = c
                /\ refcnt'[rprm'[c].mgr] = refcnt[rprm'[c].mgr] + 1]_vars

\* a second connection became live: its probe was acknowledged with 0
C17_Witness ==
    /\ last.op = "probe"
    /\ last.sent[1].ret = 0
    /\ rprm[last.chan].live
    /\ refcnt[last.name] = 2

(***************************************************************************)
(* C18: when rprm_remove has returned, the driver's release was called     *)
(* once for every instance the connection held, the id table and the list  *)
(* of the connection are empty, the connection is gone and the manager's   *)
(* owner has one reference per connection that is still live; also when a  *)
(* driver's release returned an error.                                     *)
(***************************************************************************)
C18_TeardownComplete ==
    last.op = "remove" =>
        /\ \A h \in idr_handles(last.pre.id_list) :
              Cardinality(ReleasesOf(last.calls, h)) = 1
        /\ Post.id_list = {}
        /\ Post.res_list = <<>>
        /\ ~rprm[last.chan].live
        /\ refcnt[last.name] = Cardinality(LiveSessions(last.name))

C21_SessionsIsolated ==
    /\ [](\A c1, c2 \in DOMAIN rprm :
             c1 # c2 =>
                 \A p \in rprm[c1].id_list, q \in rprm[c2].id_list :
                     p.ptr.handle # q.ptr.handle)
    /\ [][\A c \in DOMAIN rprm :
            Tables(rprm'[c]) # Tables(rprm[c]) =>
                /\ last'.chan = c
                /\ last'.op \in {"probe", "cb", "remove"}]_vars

\* a request on one connection was given the id that is live in the other
\* connection of the same manager
C21_Witness ==
    /\ LastIsRequest /\ last.ret = 0
    /\ \E c \in DOMAIN rprm :
          /\ c # last.chan
          /\ rprm[c].live /\ rprm[c].mgr = rprm[last.chan].mgr
          /\ last.sent[1].res_id \in idr_ids(rprm[c].id_list)
          /\ last.sent[1].res_id \in idr_ids(rprm[last.chan].id_list)

(***************************************************************************)
(* C22: whenever a thread is about to call, or is inside, a driver's       *)
(* request or release, table_lock is free or held by a platform device     *)
(* that is inside rprm_manager_register or rprm_manager_unregister, never  *)
(* by the thread that makes the driver call; and the step that made a      *)
(* driver call left table_lock as it was.                                  *)
(***************************************************************************)
C22_TableLockNotOverDriver ==
    /\ \A c \in Chans :
          (At(c, "cb", "req_drv") \/ At(c, "cb", "rel_drv")
              \/ At(c, "cb", "req_err_rel"))
          => /\ table_lock \in {0} \cup Devs
             /\ table_lock # 0 =>
                   dpc[table_lock].at \in
                       {"reg_find", "reg_add", "reg_unlock", "unreg_busy",
                        "unreg_del", "unreg_unlock"}
    /\ acc.drv # "none" => table_lock \in {0} \cup Devs

\* while rprm_cb of one channel is inside the driver's request, the probe
\* of another channel has completed and a platform device holds table_lock
\* inside rprm_manager_register
C22_Witness ==
    \E c \in Chans, d \in Devs :
        /\ At(c, "cb", "req_drv")
        /\ last.op = "probe" /\ last.chan # c /\ last.ret = 0
        /\ table_lock = d
        /\ DevAt(d, "reg_find")

(***************************************************************************)
(* C23: in the name-keyed variant, after rprm_resource_unregister(res)     *)
(* returned 0 the resource is not in the resource table any more (so that  *)
(* no later request naming it resolves to it), for zero, one or several    *)
(* connected channels.                                                     *)
(***************************************************************************)
C23_UnregisteredGone ==
    (flast.op = "unregister" /\ flast.ret = 0)
        => ~res_linked(res_table, flast.desc)

(***************************************************************************)
(* C24: in the name-keyed variant, rprm_resource_unregister called with a  *)
(* descriptor that is not registered at that moment fails with -EINVAL     *)
(* and leaves the resource table as it was.                                *)
(***************************************************************************)
C24_UnknownUnregisterFails ==
    [][(flast'.op = "unregister" /\ ~res_linked(res_table, flast'.desc))
          => (flast'.ret = -EINVAL /\ res_table' = res_table)]_vars

(***************************************************************************)
(* C25: in the name-keyed variant, rprm_resource_register fails with       *)
(* -EEXIST when a resource of that name is in the table at its return,     *)
(* put there by another call, and under every interleaving of concurrent   *)
(* registrations the resource table never holds two descriptors of one     *)
(* name.                                                                   *)
(***************************************************************************)
C25_OneDescriptorPerName ==
    /\ \A i, j \in DOMAIN res_table :
          res_name(res_table[i]) = res_name(res_table[j]) => i = j
    /\ (flast.op = "register" /\ flast.desc # NULL
        /\ \E i \in DOMAIN res_table :
              /\ res_table[i] # flast.desc
              /\ res_name(res_table[i]) = res_name(flast.desc))
           => flast.ret = -EEXIST

C28_AckedIdBound ==
    /\ [](/\ (LastIsRequest /\ last.ret = 0) =>
               /\ Len(last.sent) = 1
               /\ last.sent[1].res_id \in idr_ids(Post.id_list)
               /\ LET e == idr_find(Post.id_list, last.sent[1].res_id) IN
                  /\ e.id = last.sent[1].res_id
                  /\ e.res = last.msg.word
                  /\ last.calls =
                         <<DrvCall("request", last.msg.word, e.handle, 0)>>
          /\ (LastIsRelease /\ last.msg.word \in idr_ids(last.pre.id_list)) =>
               LET e == idr_find(last.pre.id_list, last.msg.word) IN
               /\ Len(last.calls) = 1
               /\ last.calls[1].op = "release"
               /\ last.calls[1].res = e.res
               /\ last.calls[1].handle = e.handle)
    /\ [][\A c \in Chans : \A p \in rprm[c].id_list :
              \/ p \in rprm'[c].id_list
              \/ /\ last'.chan = c
                 /\ \/ last'.op = "remove"
                    \/ /\ last'.op = "cb"
                       /\ last'.msg.action = RPRM_RELEASE
                       /\ last'.msg.word = p.id]_vars

\* an acknowledged id of the last descriptor was released
C28_Witness ==
    /\ LastIsRelease
    /\ last.msg.word \in idr_ids(last.pre.id_list)
    /\ idr_find(last.pre.id_list, last.msg.word).res = SdmaIdx
    /\ idr_find(last.pre.id_list, last.msg.word).handle > 1
    /\ Len(last.calls) = 1

(***************************************************************************)
(* C29 as claimed: on a connection that holds no instance the first        *)
(* successful request is acknowledged with resource_id 1, and a release of *)
(* id 1 that follows a release of the live id 1 returns -ENOENT.           *)
(***************************************************************************)
C29_FirstIdIsOne ==
    /\ []((/\ LastIsRequest
           /\ last.ret = 0
           /\ last.pre.id_list = {}
           /\ last.pre.res_list = <<>>)
          => (Len(last.sent) = 1 /\ last.sent[1].res_id = 1))
    /\ [][(/\ LastIsRelease
           /\ last.msg.word = 1
           /\ 1 \in idr_ids(last.pre.id_list)
           /\ LastIsRelease'
           /\ last'.chan = last.chan
           /\ last'.msg.word = 1)
          => (last'.ret = -ENOENT /\ last'.calls = <<>>)]_vars

(***************************************************************************)
(* C29 amended: on a connection that holds no instance the first           *)
(* successful request is acknowledged with resource_id 0, and a release of *)
(* id 0 that follows a release of the live id 0 returns -ENOENT and calls  *)
(* no driver.                                                              *)
(***************************************************************************)
C29_FirstIdIsZero ==
    /\ []((/\ LastIsRequest
           /\ last.ret = 0
           /\ last.pre.id_list = {}
           /\ last.pre.res_list = <<>>)
          => (Len(last.sent) = 1 /\ last.sent[1].res_id = 0))
    /\ [][(/\ LastIsRelease
           /\ last.msg.word = 0
           /\ 0 \in idr_ids(last.pre.id_list)
           /\ LastIsRelease'
           /\ last'.chan = last.chan
           /\ last'.msg.word = 0)
          => (last'.ret = -ENOENT /\ last'.calls = <<>>)]_vars

\* the only instance of the connection had id 0 and was released, and a
\* release of id 0 found nothing
C29_Witness ==
    /\ LastIsRelease
    /\ last.msg.word = 0
    /\ last.ret = -ENOENT
    /\ nhandle = 1
    /\ Post.id_list = {}
    /\ Post.res_list = <<>>

(***************************************************************************)
(* C30 as claimed: a message from an endpoint the channel is not connected *)
(* to calls no driver and leaves the id table and the list as they were,   *)
(* whatever its action, and its sender gets one ack of the ack header only *)
(* with status -ENOTCONN.                                                  *)
(***************************************************************************)
C30_StrayAcked ==
    (last.op = "cb" /\ last.msg.src # rpdev_dst(last.chan))
    => /\ last.calls = <<>>
       /\ TablesUnchanged
       /\ Len(last.sent) = 1
       /\ HeaderOnly(last.sent[1])
       /\ last.sent[1].ret = -ENOTCONN
       /\ last.sent[1].dst = last.msg.src

(***************************************************************************)
(* C30 amended: a message from an endpoint the channel is not connected to *)
(* calls no driver and leaves the id table and the list as they were,      *)
(* whatever its action; when it has the common header its sender gets one  *)
(* ack of the ack header only with status -ENOTCONN and the action of the  *)
(* message, and when it is shorter than the common header nothing is sent. *)
(***************************************************************************)
C30_StrayNotExecuted ==
    (last.op = "cb" /\ last.msg.src # rpdev_dst(last.chan))
    => /\ last.calls = <<>>
       /\ TablesUnchanged
       /\ IF last.msg.len >= SizeofMsg
          THEN /\ Len(last.sent) = 1
               /\ HeaderOnly(last.sent[1])
               /\ last.sent[1].ret = -ENOTCONN
               /\ last.sent[1].action = last.msg.action
               /\ last.sent[1].dst = last.msg.src
          ELSE last.sent = <<>>

\* a stray endpoint asked for the release of an id that is live
C30_Witness ==
    /\ LastIsMsg
    /\ last.msg.src = StraySrc
    /\ last.msg.action = RPRM_RELEASE
    /\ last.msg.word \in idr_ids(last.pre.id_list)
    /\ Len(last.sent) = 1
    /\ last.sent[1].ret = -ENOTCONN

(***************************************************************************)
(* C31 as claimed: a message whose action is neither REQUEST nor RELEASE   *)
(* leaves the id table and the list as they were, calls no driver and is   *)
(* answered with exactly one ack of the ack header only that echoes the    *)
(* action and has status -EINVAL.                                          *)
(***************************************************************************)
C31_UnknownActionEinval ==
    (LastIsMsg /\ last.msg.action \notin {RPRM_REQUEST, RPRM_RELEASE})
    => /\ last.calls = <<>>
       /\ TablesUnchanged
       /\ Len(last.sent) = 1
       /\ HeaderOnly(last.sent[1])
       /\ last.sent[1].action = last.msg.action
       /\ last.sent[1].ret = -EINVAL

(***************************************************************************)
(* C31 amended: the same for a message from the endpoint the channel is    *)
(* connected to; from another endpoint the status is -ENOTCONN.            *)
(***************************************************************************)
C31_UnknownAction ==
    (LastIsMsg /\ last.msg.action \notin {RPRM_REQUEST, RPRM_RELEASE})
    => /\ last.calls = <<>>
       /\ TablesUnchanged
       /\ Len(last.sent) = 1
       /\ HeaderOnly(last.sent[1])
       /\ last.sent[1].action = last.msg.action
       /\ last.sent[1].dst = last.msg.src
       /\ last.sent[1].ret =
              IF LastIsConnected THEN -EINVAL ELSE -ENOTCONN

\* the connected endpoint sent an unknown action while an instance was live
C31_Witness ==
    /\ LastIsConnected
    /\ last.msg.action = 2
    /\ last.pre.id_list # {}
    /\ Len(last.sent) = 1
    /\ last.sent[1].ret = -EINVAL

(***************************************************************************)
(* C32: a message shorter than the common header is dropped: nothing is    *)
(* sent, no driver is called and the id table and the list are as they     *)
(* were, whatever endpoint it comes from.                                  *)
(***************************************************************************)
C32_RuntDropped ==
    (last.op = "cb" /\ last.msg.len < SizeofMsg)
    => /\ last.sent = <<>>
       /\ last.calls = <<>>
       /\ TablesUnchanged

\* a runt arrived from the connected endpoint while an instance was live
C32_Witness ==
    /\ last.op = "cb"
    /\ last.msg.len < SizeofMsg
    /\ last.msg.src = rpdev_dst(last.chan)
    /\ last.pre.id_list # {}
    /\ last.pre.res_list # <<>>

(***************************************************************************)
(* C33: when res->request succeeded and idr_pre_get or idr_get_new fails,  *)
(* the id table and the list get no entry, the mutex is released before    *)
(* the driver's release is called and is not held when rprm_cb returns,    *)
(* the driver's release is called once, with the descriptor and the handle *)
(* of the request, and the ack has the allocation error as its status and  *)
(* no payload.                                                             *)
(***************************************************************************)
C33_IdFailureUndone ==
    /\ [](\A c \in Chans :
            /\ (At(c, "cb", "req_err_unlock") \/ At(c, "cb", "req_err_rel"))
               => /\ pc[c]["cb"].e.handle \notin idr_handles(rprm[c].id_list)
                  /\ \A i \in DOMAIN rprm[c].res_list :
                        rprm[c].res_list[i].handle # pc[c]["cb"].e.handle
            /\ (At(c, "cb", "req_err_rel") \/ At(c, "cb", "idle"))
               => mutex[c] # "cb")
    /\ [][\A c \in Chans :
            /\ (/\ At(c, "cb", "req_idr")
                /\ ~At(c, "cb", "req_idr")'
                /\ ~At(c, "cb", "req_add")')
               => /\ At(c, "cb", "req_err_unlock")'
                  /\ rprm' = rprm
                  /\ acc'.drv = "none"
            /\ (At(c, "cb", "req_err_unlock") /\ ~At(c, "cb", "req_err_unlock")')
               => /\ At(c, "cb", "req_err_rel")'
                  /\ rprm' = rprm
                  /\ acc'.drv = "none"
            /\ (At(c, "cb", "req_err_rel") /\ ~At(c, "cb", "req_err_rel")')
               => /\ At(c, "cb", "idle")'
                  /\ rprm' = rprm
                  /\ acc'.drv = "release"
                  /\ last'.calls =
                        <<DrvCall("release", pc[c]["cb"].e.res,
                                  pc[c]["cb"].e.handle, 0)>>
                  /\ pc[c]["cb"].arg \in {-ENOMEM, -EAGAIN}
                  /\ Len(last'.sent) = 1
                  /\ HeaderOnly(last'.sent[1])
                  /\ last'.sent[1].ret = pc[c]["cb"].arg
                  /\ last'.sent[1].action = RPRM_REQUEST]_vars

\* the second request of a connection failed at the id and was undone
C33_Witness ==
    /\ last.op = "cb"
    /\ last.ret = -EAGAIN
    /\ Len(last.calls) = 1
    /\ last.calls[1].op = "release"
    /\ last.calls[1].handle = 2
    /\ rprm[last.chan].id_list # {}
    /\ At(last.chan, "cb", "idle")
    /\ mutex[last.chan] = "free"

(***************************************************************************)
(* C34 as claimed: the ack of every request fits the MAX_MSG bytes of the  *)
(* ack buffer (ack header, request-ack header and the bytes copied), and a *)
(* request whose parameter block would not fit is refused.                 *)
(***************************************************************************)
C34_AckFitsBuffer ==
    LastIsRequest
    => /\ \A i \in DOMAIN last.sent : ack_bytes(last.sent[i]) <= MAX_MSG
       /\ (SizeofAck + SizeofRack + Len(last.msg.data) > MAX_MSG)
          => last.ret # 0

(***************************************************************************)
(* C35 as claimed: while rprm_dbg_read traverses the list of a connection  *)
(* (it holds the connection's mutex), no element leaves that list, and the *)
(* element under the reader's cursor is an element of the list.            *)
(***************************************************************************)
C35_ReaderSeesLive ==
    /\ [](\A c \in Chans :
            (At(c, "dbg", "dbg_walk") /\ pc[c]["dbg"].e # NULL_ELEM)
            => \E k \in DOMAIN rprm[c].res_list :
                   rprm[c].res_list[k] = pc[c]["dbg"].e)
    /\ [][\A c \in Chans :
            (mutex[c] = "dbg" /\ mutex'[c] = "dbg")
            => \A k \in DOMAIN rprm[c].res_list :
                   \E j \in DOMAIN rprm'[c].res_list :
                       rprm'[c].res_list[j] = rprm[c].res_list[k]]_vars

(***************************************************************************)
(* C36 as claimed: a probe either succeeds, and then an unregister of its  *)
(* manager returns -EBUSY, or fails with -ENOENT after the unregister      *)
(* succeeded; an unregister returns -EBUSY to a connection that is live;   *)
(* and no connection is live on a manager that is not registered.          *)
(***************************************************************************)
C36_ProbeOrUnregister ==
    /\ [](/\ last.op = "probe" => last.ret \in {0, -ENOENT}
          /\ \A c \in Chans2 :
                rprm[c].live => __find_mgr_by_name(mgr_table, rprm[c].mgr))
    /\ [][\A d \in Devs :
            (DevAt(d, "unreg_busy") /\ dpc'[d].ret = -EBUSY)
            => LiveSessions(mgr_name(d)) # {}]_vars

(***************************************************************************)
(* C36 amended: the lookup and the reference of rprm_probe and the busy    *)
(* check and the removal of rprm_manager_unregister exclude each other     *)
(* through table_lock. A probe that succeeds found the manager registered  *)
(* and took its reference in that step; a probe fails with -ENOENT exactly *)
(* when the manager was not registered at its lookup; otherwise it fails   *)
(* on its own with -EINVAL or -ENOMEM and keeps no reference. An           *)
(* unregister that checks while a connection is live returns -EBUSY, and   *)
(* the manager leaves the registry only under the lock, with no reference  *)
(* and no live connection. No connection is live on a manager that is not  *)
(* registered.                                                             *)
(***************************************************************************)
C36_ProbeUnregisterAtomic ==
    /\ [](/\ last.op = "probe" => last.ret \in {0, -ENOENT, -EINVAL, -ENOMEM}
          /\ \A c \in Chans2 :
                rprm[c].live => __find_mgr_by_name(mgr_table, rprm[c].mgr)
          /\ \A name \in MgrNames :
                refcnt[name] >= Cardinality(LiveSessions(name)))
    /\ [][/\ (last' # last /\ last'.op = "probe" /\ last'.ret # -ENOMEM)
             => /\ table_lock = 0
                /\ last'.ret = -ENOENT
                   <=> ~__find_mgr_by_name(mgr_table, last'.name)
                /\ last'.ret = 0
                   => /\ rprm'[last'.chan].live
                      /\ refcnt'[last'.name] = refcnt[last'.name] + 1
                /\ last'.ret # 0 => refcnt' = refcnt
          /\ (last' # last /\ last'.op = "probe" /\ last'.ret # 0)
             => ~rprm'[last'.chan].live
          /\ \A d \in Devs :
                /\ (DevAt(d, "unreg_busy") /\ ~DevAt(d, "unreg_busy")')
                   => /\ table_lock = d
                      /\ LiveSessions(mgr_name(d)) # {}
                         => /\ dpc'[d].ret = -EBUSY
                            /\ mgr_table' = mgr_table
                            /\ DevAt(d, "unreg_unlock")'
          /\ \A name \in MgrNames :
                (/\ __find_mgr_by_name(mgr_table, name)
                 /\ ~__find_mgr_by_name(mgr_table', name))
                => /\ table_lock # 0
                   /\ refcnt[name] = 0
                   /\ LiveSessions(name) = {}]_vars

\* an unregister returned -EBUSY to the connection the last probe made
C36_Witness ==
    /\ last.op = "probe"
    /\ last.ret = 0
    /\ rprm[last.chan].live
    /\ \E d \in Devs : DevAt(d, "idle") /\ dpc[d].reg /\ dpc[d].ret = -EBUSY

(***************************************************************************)
(* C37 as claimed: rprm_resource_unregister(res) calls the driver's        *)
(* release once for every live instance of type res on every connected     *)
(* channel and takes the instance out of the id table and of the list, and *)
(* leaves the instances of the other types, in both tables of every        *)
(* channel, as they were.                                                  *)
(***************************************************************************)
C37_UnregisterReleasesAll ==
    [][(flast'.op = "unregister" /\ flast'.desc \in FDescs)
       => \A c \in Chans2 :
            /\ rprm[c].live
               => \A k \in DOMAIN rprm[c].res_list :
                    LET e == rprm[c].res_list[k] IN
                    e.res = flast'.desc
                    => /\ Cardinality(ReleasesOf(flast'.calls, e.handle)) = 1
                       /\ \A j \in DOMAIN rprm'[c].res_list :
                             rprm'[c].res_list[j] # e
                       /\ e.id \notin idr_ids(rprm'[c].id_list)
            /\ SelectSeq(rprm'[c].res_list, LAMBDA e : e.res # flast'.desc)
               = SelectSeq(rprm[c].res_list, LAMBDA e : e.res # flast'.desc)
            /\ {p \in rprm'[c].id_list : p.ptr.res # flast'.desc}
               = {p \in rprm[c].id_list : p.ptr.res # flast'.desc}]_vars

\* the channels the calls op of a trace name, in the order of the calls
TraceChs(tr, op) ==
    LET sel == SelectSeq(tr, LAMBDA x : x.op = op /\ x.ch # NULL)
    IN [k \in DOMAIN sel |-> sel[k].ch]

\* no channel twice in q
Distinct(q) == \A i, j \in DOMAIN q : i # j => q[i] # q[j]

(***************************************************************************)
(* C38: rprm_sdma_request is all-or-nothing.  A request for more than      *)
(* MAX_NUM_SDMA_CHANNELS channels fails with -EINVAL and calls the DMA     *)
(* allocator not once; when the acquisition of channel i fails, the i      *)
(* channels acquired before it, and no other, are freed, each once, no     *)
(* handle is returned and the request fails; a successful request holds    *)
(* num_chs channels that were free before; and rprm_sdma_release frees the *)
(* channels of its depot and no other, each once.                          *)
(***************************************************************************)
C38_SdmaAllOrNothing ==
    [][LET q   == omap'.req
           tr  == q.trace
           got == TraceChs(tr, "request")
           fre == TraceChs(tr, "free")
           Set(x) == {x[k] : k \in DOMAIN x}
       IN
       /\ (q.args.idx = SdmaIdx /\ q.drv # NoRet /\ q.args.len_ok
            /\ q.args.n > MAX_NUM_SDMA_CHANNELS)
          => /\ q.drv = -EINVAL /\ q.ret = -EINVAL
             /\ tr = <<>>
             /\ omap'.dma = omap.dma
             /\ omap'.depot = omap.depot
       /\ (q.args.idx = SdmaIdx /\ q.drv # NoRet
            /\ \E k \in DOMAIN tr : tr[k] = DmaCall("request", NULL))
          => /\ Len(tr) = 2 * Len(got) + 1
             /\ tr[Len(got) + 1] = DmaCall("request", NULL)
             /\ Len(got) < q.args.n
             /\ Distinct(got) /\ Set(got) \cap omap.dma = {}
             /\ Len(fre) = Len(got) /\ Set(fre) = Set(got)
             /\ q.drv # 0 /\ q.ret = q.drv
             /\ omap'.dma = omap.dma
             /\ omap'.depot = omap.depot
             /\ rprm' = rprm
       /\ (q.args.idx = SdmaIdx /\ q.drv = 0)
          => /\ Len(tr) = q.args.n /\ Len(got) = q.args.n /\ Distinct(got)
             /\ Set(got) \cap omap.dma = {}
             /\ omap'.dma = omap.dma \cup Set(got)
             /\ \E d \in omap'.depot \ omap.depot :
                   /\ omap'.depot = omap.depot \cup {d}
                   /\ d.idx = SdmaIdx /\ d.units = Set(got)
                   /\ Cardinality(d.units) = q.args.n
       /\ (q.args.idx = NULL /\ omap' # omap)
          => LET gone == {d \in omap.depot \ omap'.depot : d.idx = SdmaIdx}
                 chs  == UNION {d.units : d \in gone}
             IN /\ got = <<>> /\ Len(fre) = Len(tr)
                /\ Distinct(fre) /\ Set(fre) = chs
                /\ chs \subseteq omap.dma
                /\ omap'.dma = omap.dma \ chs
                /\ omap'.depot \subseteq omap.depot]_vars

\* a request for two channels got one and failed at the second, the other
\* channel being held by a depot: the one it got was freed again
C38_Witness ==
    /\ omap.req.args.idx = SdmaIdx
    /\ omap.req.args.n = MAX_NUM_SDMA_CHANNELS
    /\ Len(omap.req.trace) = 3
    /\ omap.req.trace[3].op = "free"
    /\ omap.req.ret = -EBUSY
    /\ \E d \in omap.depot : d.idx = SdmaIdx /\ d.units # {}


(***************************************************************************)
(* C39: a kick requested while the remote processor is suspended sends     *)
(* nothing to the mailbox and is not lost, for every interleaving of       *)
(* omap_rproc_kick with omap_rproc_resume: the step of omap_rproc_kick     *)
(* that finds the processor suspended leaves the mailbox as it is, and     *)
(* once the processor is resumed and neither a kick nor a suspend or       *)
(* resume is running, every vring whose kick was put off has been kicked   *)
(* and need_kick is false.                                                 *)
(***************************************************************************)
C39_KickNotLost ==
    /\ []((/\ ~oproc.suspended
           /\ oproc.ppc = "idle"
           /\ \A v \in Vqs : oproc.kpc[v] = "idle")
          => (oproc.defer = {} /\ ~oproc.need_kick))
    /\ [][\A v \in Vqs :
             (oproc.kpc[v] = "idle" /\ oproc'.kpc[v] = "set")
             => oproc'.mbox = oproc.mbox]_vars

\* the last suspend request sent was answered, with SUSPEND_ACK (ack) or
\* with SUSPEND_CANCEL
Answer(o, ack) == [req |-> o.reqno, ack |-> ack] \in o.replies

(***************************************************************************)
(* C40: the remote processor is marked suspended only after a SUSPEND_ACK  *)
(* for the current suspend request was received and the device shutdown    *)
(* and the reset assertion succeeded.  When the current request was        *)
(* answered with SUSPEND_CANCEL, or the wait timed out without an          *)
(* acknowledgment of it, _suspend returns -EBUSY, suspended stays false    *)
(* and the device is not shut down; and an auto-suspend attempted while    *)
(* the processor is not idle returns -EBUSY without sending a suspend      *)
(* message.                                                                *)
(***************************************************************************)
C40_SuspendedOnlyAcked ==
    /\ [](oproc.suspended => (Answer(oproc, TRUE) /\ ~oproc.on))
    /\ [][(/\ oproc.ppc \in {"sus_acked", "sus_idle", "sus_shutdown"}
           /\ oproc'.ppc = "idle"
           /\ \/ Answer(oproc, FALSE)
              \/ oproc.timedout /\ ~Answer(oproc, TRUE))
          => /\ oproc'.pm = [op |-> "suspend", ret |-> -EBUSY]
             /\ ~oproc'.suspended
             /\ oproc'.on = oproc.on]_vars
    /\ [][(oproc.ppc = "idle" /\ oproc'.ppc = "sus_init" /\ oproc'.auto)
          => _rproc_idled(oproc)]_vars
    /\ [][oproc'.reqno > oproc.reqno => oproc.ppc = "sus_send"]_vars

=============================================================================
